---------------------------- MODULE Spec2Model ----------------------------
(***************************************************************************)
(* Model of the GraphFit backend: the request dispatcher of               *)
(* backend/routes/fit.py (POST /fit and POST /fit-waves) and the          *)
(* estimators of backend/services/fitting.py.                             *)
(*                                                                         *)
(* Spec     the dispatcher.  A request is its mode, the widths of the     *)
(*          rows of its points matrix and the length of its columns list; *)
(*          the handler is followed block by block (validate, fit, plot,  *)
(*          return) and every call it makes is logged in `calls`.         *)
(* LinSpec  fit_straight_line and the R^2 expression shared by the        *)
(*          estimators, in exact rational arithmetic on small grids.      *)
(* FloatSpec fit_straight_line in IEEE-754 binary64 arithmetic             *)
(*          (dtype=float), statement by statement, on rows of decimal     *)
(*          literals as a request body carries them.                      *)
(* ResultSpec, SeriesSpec, GridSpec, CmcSpec, DerivedSpec, RopeSpec,       *)
(* OrderSpec  single estimators (and the drawing of the rope groups), on   *)
(*          the keys or the values of their results.                       *)
(* ValueSpec  fit() on a request with the values of its matrix.            *)
(* ConcSpec   two invocations of fit() in flight at once.                  *)
(* MultiStartSpec  the multi-start gradient-descent driver.                *)
(***************************************************************************)
EXTENDS Integers, Sequences, FiniteSets, TLC

VARIABLES
    pc,          \* position of the handler in routes/fit.py
    req,         \* the request being handled (FitRequest / FitWavesRequest)
    calls,       \* log: the functions the handler has invoked, in order
    stages,      \* log: the dispatcher stages entered, in order
    fit_params,  \* what the estimators returned so far (by estimator name)
    graphs,      \* how many graph images generate_graph has returned
    response,    \* the HTTP response (status 0: none yet)
    num          \* the estimator call under study: its arguments and result

dvars == <<pc, req, calls, stages, fit_params, graphs, response>>

vars == <<pc, req, calls, stages, fit_params, graphs, response, num>>

-----------------------------------------------------------------------------
(* Bounds of the dispatcher model *)

MaxRows == 5
MaxWidth == 3
MaxCols == 3
MaxWaveRows == 2

-----------------------------------------------------------------------------
(* routes/fit.py: the mode catalog *)

MULTI_SERIES_MODES ==
    {"photoelectric-1-1", "photoelectric-1-3", "pohls-damped", "pohls-forced"}

SingleSeriesModes ==
    {"straight-line", "cmc", "photoelectric-1-2", "single-slit",
     "newtons-rings", "polarization"}

KnownModes == MULTI_SERIES_MODES \cup SingleSeriesModes

\* mode strings a caller may send that the /fit chain does not list
UnknownModes == {"not-a-real-mode", "waves-rope"}

Modes == KnownModes \cup UnknownModes

\* the branches of the if/elif chain of fit(), lines 66-88
ModeTable(mode) ==
    CASE mode = "straight-line" -> "fit_straight_line"
      [] mode = "cmc" -> "fit_cmc"
      [] mode \in {"photoelectric-1-1", "photoelectric-1-3"} -> "fit_photoelectric_vi"
      [] mode = "photoelectric-1-2" -> "fit_photoelectric_h"
      [] mode = "single-slit" -> "fit_single_slit"
      [] mode = "newtons-rings" -> "fit_newtons_rings"
      [] mode = "pohls-damped" -> "fit_pohls_damped"
      [] mode = "pohls-forced" -> "fit_pohls_forced"
      [] mode = "polarization" -> "fit_polarization"

\* mutant: a mode the chain does not list falls through to the line fit
EstimatorOfDefault(mode) ==
    IF mode \in KnownModes THEN ModeTable(mode) ELSE "fit_straight_line"

\* the chain with its final else (lines 89-92): "none" is the unknown mode
EstimatorOf(mode) ==
    IF mode \in KnownModes THEN ModeTable(mode) ELSE "none"

Estimators ==
    {"fit_straight_line", "fit_cmc", "fit_photoelectric_vi", "fit_photoelectric_h",
     "fit_single_slit", "fit_newtons_rings", "fit_pohls_damped", "fit_pohls_forced",
     "fit_polarization", "fit_waves_rope", "fit_waves_sound"}

-----------------------------------------------------------------------------
(* Requests: a points matrix is the sequence of its rows' widths *)

RECURSIVE SeqsUpTo(_, _)
SeqsUpTo(S, n) ==
    IF n = 0 THEN {<<>>}
    ELSE LET shorter == SeqsUpTo(S, n - 1)
         IN  shorter \cup {Append(s, w) : s \in {t \in shorter : Len(t) = n - 1}, w \in S}

Widths == 1..MaxWidth

FitRequests ==
    [kind : {"fit"}, mode : Modes, points : SeqsUpTo(Widths, MaxRows),
     columns : 0..MaxCols]

FitWavesRequests ==
    [kind : {"fit-waves"}, rope_points : SeqsUpTo(Widths, MaxWaveRows),
     sound_points : SeqsUpTo(Widths, MaxWaveRows)]

NoRequest == [kind |-> "none"]

-----------------------------------------------------------------------------
(* HTTP responses.  detail is the message (its variable parts left out),  *)
(* row the row number it names (0: none), cause the exception the handler  *)
(* caught and wrapped ("none": raised by the handler itself)               *)

NoResponse == [status |-> 0, detail |-> "none", row |-> 0, cause |-> "none"]

HTTPException(status_code, detail, row) ==
    [status |-> status_code, detail |-> detail, row |-> row, cause |-> "none"]

\* except Exception as e: raise HTTPException(500, f"<prefix>: {str(e)}")
Wrapped(prefix, e) ==
    [status |-> 500, detail |-> prefix, row |-> 0, cause |-> e.msg]

Success == [status |-> 200, detail |-> "ok", row |-> 0, cause |-> "none"]

\* index (1-based, as the messages count) of the first row whose width is not w
FirstRowNot(points, w) ==
    IF \E i \in 1..Len(points) : points[i] # w
    THEN CHOOSE i \in 1..Len(points) :
            /\ points[i] # w
            /\ \A j \in 1..(i - 1) : points[j] = w
    ELSE 0

\* mutant: the CMC minimum is the only structural check
ValidateFitNoWidths(r) ==
    IF Len(r.points) < 2
    THEN HTTPException(400, "Need at least 2 data points.", 0)
    ELSE NoResponse

\* mutant: the row widths are checked before the row count
ValidateFitWidthsFirst(r) ==
    IF FirstRowNot(r.points, 2) # 0
    THEN HTTPException(400, "Row i must have exactly 2 values.", FirstRowNot(r.points, 2))
    ELSE IF Len(r.points) < 2
    THEN HTTPException(400, "Need at least 2 data points.", 0)
    ELSE NoResponse

\* fit(), lines 42-63: the structural checks; NoResponse when all pass
ValidateFit(r) ==
    IF Len(r.points) < 2
    THEN HTTPException(400, "Need at least 2 data points.", 0)
    ELSE IF r.mode \notin MULTI_SERIES_MODES
    THEN IF FirstRowNot(r.points, 2) # 0
         THEN HTTPException(400, "Row i must have exactly 2 values.",
                            FirstRowNot(r.points, 2))
         ELSE NoResponse
    ELSE LET width == r.points[1]
         IN  IF width < 2
             THEN HTTPException(400, "Need at least 2 columns.", 0)
             ELSE IF FirstRowNot(r.points, width) # 0
             THEN HTTPException(400, "Row i has k values, expected width.",
                                FirstRowNot(r.points, width))
             ELSE NoResponse

\* fit_waves_endpoint(), lines 127-144
ValidateWaves(r) ==
    IF Len(r.rope_points) < 2
    THEN HTTPException(400, "Need at least 2 rope data points.", 0)
    ELSE IF Len(r.sound_points) < 2
    THEN HTTPException(400, "Need at least 2 sound data points.", 0)
    ELSE IF FirstRowNot(r.rope_points, 3) # 0
    THEN HTTPException(400, "Rope row i must have 3 values.",
                       FirstRowNot(r.rope_points, 3))
    ELSE IF FirstRowNot(r.sound_points, 2) # 0
    THEN HTTPException(400, "Sound row i must have 2 values.",
                       FirstRowNot(r.sound_points, 2))
    ELSE NoResponse

-----------------------------------------------------------------------------
(* services/fitting.py as the dispatcher sees it: what a call of an        *)
(* estimator can end with, given the shape of its arguments: a returned    *)
(* FitResult (Returned) or a raised exception.  Which of the               *)
(* data-dependent outcomes happens is decided by the values, which this    *)
(* part of the model leaves open.                                          *)

Returned == [type |-> "ok", msg |-> "none"]

Exc(type, msg) == [type |-> type, msg |-> msg]

\* fit_straight_line, line 28
DegenerateX == Exc("ValueError", "All x-values are identical; cannot fit a line.")

LineOutcomes == {Returned, DegenerateX}

\* fit_cmc, line 119
TooFewPoints == Exc("ValueError", "Need at least 5 data points to fit the CMC model.")

\* fit_cmc, lines 187-191
CmcNotConverged == Exc("RuntimeError", "CMC fitting failed")

\* fit_single_slit, lines 334-338
SlitNotConverged == Exc("RuntimeError", "Failed to fit single slit diffraction pattern.")

\* curve_fit without bounds (least squares by MINPACK) refuses fewer data
\* points than parameters with a TypeError, which line 334 does not catch
SlitTooFewPoints == Exc("TypeError", "Improper input: N=3 must not exceed M")

\* fit_photoelectric_vi line 258, fit_pohls_damped line 399, fit_pohls_forced line 454
TooFewColumns == Exc("ValueError", "Need at least 2 columns")

\* series_labels[i] with i past the end of columns[1:]
LabelIndexError == Exc("IndexError", "list index out of range")

\* fit_waves_rope, line 553
NoValidGroups == Exc("ValueError", "No valid groups found in rope wave data.")

\* fit_waves_sound, line 581
ZeroFrequency == Exc("ValueError", "Frequency values must be non-zero.")

\* the failures that are structural preconditions of an estimator
StructuralMsgs == {TooFewPoints.msg, TooFewColumns.msg}

\* series_labels[i] inside the per-series loops: columns[1:] is used when
\* len(columns) > 1 and is too short when len(columns) - 1 < series_count
LabelsTooShort(points, columns) ==
    columns > 1 /\ columns - 1 < points[1] - 1

\* mutant: the estimator's minimum is the dispatcher's (4 points)
CmcOutcomesMin4(points) ==
    IF Len(points) < 4 THEN {TooFewPoints} ELSE {Returned, CmcNotConverged}

\* how scipy's curve_fit can end (fit_cmc, lines 176-186): it returns the
\* optimized parameters, raises RuntimeError when the least-squares solver
\* does not converge within maxfev, or raises ValueError when it rejects its
\* inputs (non-finite data or residuals, a degenerate bound interval)
CurveFitOutcomes == {"converged", "RuntimeError", "ValueError"}

\* mutant: only the solver's RuntimeError is translated
CmcAfterCurveFitRuntimeOnly(solver) ==
    CASE solver = "converged" -> Returned
      [] solver = "RuntimeError" -> CmcNotConverged
      [] OTHER -> Exc("ValueError", "curve_fit rejected its inputs")

\* fit_cmc, lines 175-229: `except (RuntimeError, ValueError)` turns both
\* failures of curve_fit into the one convergence error; otherwise the result
\* is built and returned
CmcAfterCurveFit(solver) ==
    IF solver = "converged" THEN Returned ELSE CmcNotConverged

\* fit_cmc: the 5-point minimum (lines 117-119), then curve_fit (lines 175-191)
CmcOutcomes(points) ==
    IF Len(points) < 5
    THEN {TooFewPoints}
    ELSE {CmcAfterCurveFit(solver) : solver \in CurveFitOutcomes}

EstimatorOutcomes(est, points, columns) ==
    CASE est \in {"fit_straight_line", "fit_photoelectric_h",
                  "fit_newtons_rings", "fit_polarization"} -> LineOutcomes
      [] est = "fit_cmc" -> CmcOutcomes(points)
      [] est = "fit_single_slit" ->
            IF Len(points) < 3 THEN {SlitTooFewPoints} ELSE {Returned, SlitNotConverged}
      [] est \in {"fit_photoelectric_vi", "fit_pohls_forced"} ->
            IF points[1] - 1 < 1 THEN {TooFewColumns}
            ELSE IF LabelsTooShort(points, columns) THEN {LabelIndexError}
            ELSE {Returned}
      [] est = "fit_pohls_damped" ->
            IF points[1] - 1 < 1 THEN {TooFewColumns}
            ELSE IF LabelsTooShort(points, columns) THEN {LabelIndexError, DegenerateX}
            ELSE LineOutcomes
      [] est = "fit_waves_rope" -> {Returned, DegenerateX, NoValidGroups}
      [] est = "fit_waves_sound" -> {Returned, DegenerateX, ZeroFrequency}

\* generate_graph: returns the image or raises
PlotFailed == Exc("Exception", "generate_graph raised")

PlotOutcomes == {Returned, PlotFailed}

-----------------------------------------------------------------------------
(* The handlers, block by block *)

StageOf(p) ==
    CASE p \in {"validate", "wvalidate"} -> "Validating"
      [] p \in {"fit", "fit_rope", "fit_sound"} -> "Fitting"
      [] p \in {"plot", "plot_rope", "plot_sound"} -> "Plotting"
      [] p = "done" -> "Done"
      [] OTHER -> "none"

\* move the handler to position p, logging the stage when it changes
Goto(p) ==
    /\ pc' = p
    /\ stages' = IF StageOf(p) \in {"none", StageOf(pc)} THEN stages
                 ELSE Append(stages, StageOf(p))

Raise(exc) ==
    /\ pc' = "failed"
    /\ stages' = stages
    /\ response' = exc

DInit ==
    /\ pc = "idle"
    /\ req = NoRequest
    /\ calls = <<>>
    /\ stages = <<>>
    /\ fit_params = <<>>
    /\ graphs = 0
    /\ response = NoResponse

\* a request arrives: FastAPI calls fit() or fit_waves_endpoint()
Receive ==
    /\ pc = "idle"
    /\ \E r \in FitRequests \cup FitWavesRequests :
          /\ req' = r
          /\ pc' = IF r.kind = "fit" THEN "validate" ELSE "wvalidate"
    /\ stages' = <<"Validating">>
    /\ calls' = <<>>
    /\ fit_params' = <<>>
    /\ graphs' = 0
    /\ response' = NoResponse
    /\ UNCHANGED num

\* fit(), lines 42-63
Validate ==
    /\ pc = "validate"
    /\ IF ValidateFit(req).status # 0
       THEN Raise(ValidateFit(req))
       ELSE Goto("fit") /\ response' = response
    /\ UNCHANGED <<req, calls, fit_params, graphs, num>>

\* mutant: when the estimator raises, the handler falls back to the line fit
InvokeEstimatorFallback(est) ==
    \E out \in EstimatorOutcomes(est, req.points, req.columns) :
        IF out = Returned
        THEN /\ calls' = Append(calls, est)
             /\ fit_params' = Append(fit_params, est)
             /\ Goto("plot")
             /\ response' = response
        ELSE /\ calls' = calls \o <<est, "fit_straight_line">>
             /\ fit_params' = Append(fit_params, "fit_straight_line")
             /\ Goto("plot")
             /\ response' = response

\* fit(), lines 65-96: the call of the estimator inside try/except.  An
\* HTTPException passes through (line 93); anything else is wrapped (line 95)
InvokeEstimator(est) ==
    /\ calls' = Append(calls, est)
    /\ \E out \in EstimatorOutcomes(est, req.points, req.columns) :
          IF out = Returned
          THEN /\ fit_params' = Append(fit_params, est)
               /\ Goto("plot")
               /\ response' = response
          ELSE /\ Raise(Wrapped("Fitting error", out))
               /\ fit_params' = fit_params

\* fit(), lines 65-96: the dispatch chain
Fit ==
    /\ pc = "fit"
    /\ LET est == EstimatorOf(req.mode)
       IN  IF est = "none"
           THEN /\ Raise(HTTPException(400, "Unknown fitting mode", 0))
                /\ UNCHANGED <<calls, fit_params>>
           ELSE IF req.mode = "cmc" /\ Len(req.points) < 4
           THEN /\ Raise(HTTPException(400, "CMC fitting requires at least 4 data points.", 0))
                /\ UNCHANGED <<calls, fit_params>>
           ELSE InvokeEstimator(est)
    /\ UNCHANGED <<req, graphs, num>>

\* fit(), lines 98-103
Plot ==
    /\ pc = "plot"
    /\ calls' = Append(calls, "generate_graph")
    /\ \E out \in PlotOutcomes :
          IF out = Returned
          THEN /\ graphs' = graphs + 1
               /\ Goto("respond")
               /\ response' = response
          ELSE /\ Raise(Wrapped("Graph generation error", out))
               /\ graphs' = graphs
    /\ UNCHANGED <<req, fit_params, num>>

\* fit(), lines 105-112, and fit_waves_endpoint(), lines 166-183
Respond ==
    /\ pc = "respond"
    /\ Goto("done")
    /\ response' = Success
    /\ UNCHANGED <<req, calls, fit_params, graphs, num>>

\* fit_waves_endpoint(), lines 127-144
ValidateWavesStep ==
    /\ pc = "wvalidate"
    /\ IF ValidateWaves(req).status # 0
       THEN Raise(ValidateWaves(req))
       ELSE Goto("fit_rope") /\ response' = response
    /\ UNCHANGED <<req, calls, fit_params, graphs, num>>

\* mutant: a failed rope fit is swallowed and the handler carries on
FitRopeContinue ==
    /\ pc = "fit_rope"
    /\ calls' = Append(calls, "fit_waves_rope")
    /\ \E out \in EstimatorOutcomes("fit_waves_rope", req.rope_points, 0) :
          /\ fit_params' = IF out = Returned THEN Append(fit_params, "fit_waves_rope")
                           ELSE fit_params
          /\ Goto("fit_sound")
          /\ response' = response
    /\ UNCHANGED <<req, graphs, num>>

\* fit_waves_endpoint(), lines 146-149
FitRope ==
    /\ pc = "fit_rope"
    /\ calls' = Append(calls, "fit_waves_rope")
    /\ \E out \in EstimatorOutcomes("fit_waves_rope", req.rope_points, 0) :
          IF out = Returned
          THEN /\ fit_params' = Append(fit_params, "fit_waves_rope")
               /\ Goto("fit_sound")
               /\ response' = response
          ELSE /\ Raise(Wrapped("Rope wave fitting error", out))
               /\ fit_params' = fit_params
    /\ UNCHANGED <<req, graphs, num>>

\* fit_waves_endpoint(), lines 151-154
FitSound ==
    /\ pc = "fit_sound"
    /\ calls' = Append(calls, "fit_waves_sound")
    /\ \E out \in EstimatorOutcomes("fit_waves_sound", req.sound_points, 0) :
          IF out = Returned
          THEN /\ fit_params' = Append(fit_params, "fit_waves_sound")
               /\ Goto("plot_rope")
               /\ response' = response
          ELSE /\ Raise(Wrapped("Sound wave fitting error", out))
               /\ fit_params' = fit_params
    /\ UNCHANGED <<req, graphs, num>>

\* fit_waves_endpoint(), lines 156-159
PlotRope ==
    /\ pc = "plot_rope"
    /\ calls' = Append(calls, "generate_graph")
    /\ \E out \in PlotOutcomes :
          IF out = Returned
          THEN /\ graphs' = graphs + 1
               /\ Goto("plot_sound")
               /\ response' = response
          ELSE /\ Raise(Wrapped("Rope graph error", out))
               /\ graphs' = graphs
    /\ UNCHANGED <<req, fit_params, num>>

\* fit_waves_endpoint(), lines 161-164
PlotSound ==
    /\ pc = "plot_sound"
    /\ calls' = Append(calls, "generate_graph")
    /\ \E out \in PlotOutcomes :
          IF out = Returned
          THEN /\ graphs' = graphs + 1
               /\ Goto("respond")
               /\ response' = response
          ELSE /\ Raise(Wrapped("Sound graph error", out))
               /\ graphs' = graphs
    /\ UNCHANGED <<req, fit_params, num>>

\* the response has been sent; the handler's locals are gone
Close ==
    /\ pc \in {"done", "failed"}
    /\ pc' = "idle"
    /\ req' = NoRequest
    /\ calls' = <<>>
    /\ stages' = <<>>
    /\ fit_params' = <<>>
    /\ graphs' = 0
    /\ response' = NoResponse
    /\ UNCHANGED num

Next ==
    \/ Receive
    \/ Close
    \/ Validate
    \/ Fit
    \/ Plot
    \/ Respond
    \/ ValidateWavesStep
    \/ FitRope
    \/ FitSound
    \/ PlotRope
    \/ PlotSound

-----------------------------------------------------------------------------
(* services/fitting.py in exact arithmetic.  A number is a fraction        *)
(* <<numerator, denominator>> in lowest terms with a positive denominator; *)
(* NaN (denominator 0) is what a division by zero leaves behind.  Rounding *)
(* of the float64 operations is not part of this semantics (FloatSpec      *)
(* below has it).                                                          *)

\* Bounds of the inputs: values 0..MaxCoord, 2..MaxPoints points
MaxCoord == 2
MaxPoints == 3

NaN == <<0, 0>>

IsNaN(a) == a[2] = 0

Abs(n) == IF n < 0 THEN 0 - n ELSE n

RECURSIVE GCD(_, _)
GCD(a, b) == IF b = 0 THEN a ELSE GCD(b, a % b)

Norm(n, d) ==
    LET g == GCD(Abs(n), Abs(d))
    IN  IF d < 0 THEN <<0 - (n \div g), (0 - d) \div g>> ELSE <<n \div g, d \div g>>

Rat(n) == <<n, 1>>

RAdd(a, b) ==
    IF IsNaN(a) \/ IsNaN(b) THEN NaN
    ELSE LET g == GCD(a[2], b[2])
         IN  Norm(a[1] * (b[2] \div g) + b[1] * (a[2] \div g), (a[2] \div g) * b[2])

RNeg(a) == <<0 - a[1], a[2]>>

RSub(a, b) == RAdd(a, RNeg(b))

RMul(a, b) ==
    IF IsNaN(a) \/ IsNaN(b) THEN NaN
    ELSE LET g1 == GCD(Abs(a[1]), b[2])
             g2 == GCD(Abs(b[1]), a[2])
         IN  IF a[1] = 0 \/ b[1] = 0 THEN Rat(0)
             ELSE <<(a[1] \div g1) * (b[1] \div g2), (a[2] \div g2) * (b[2] \div g1)>>

\* a / b; dividing by zero gives NaN (numpy: nan or inf, and a warning)
RDiv(a, b) ==
    IF IsNaN(a) \/ IsNaN(b) \/ b[1] = 0 THEN NaN
    ELSE RMul(a, IF b[1] < 0 THEN <<0 - b[2], 0 - b[1]>> ELSE <<b[2], b[1]>>)

RLess(a, b) == ~IsNaN(a) /\ ~IsNaN(b) /\ a[1] * b[2] < b[1] * a[2]

\* np.sum
RECURSIVE RSum(_)
RSum(v) == IF v = <<>> THEN Rat(0) ELSE RAdd(v[1], RSum(Tail(v)))

\* np.mean
RMean(v) == RDiv(RSum(v), Rat(Len(v)))

Map1(f(_), v) == [i \in 1..Len(v) |-> f(v[i])]

Map2(f(_, _), v, w) == [i \in 1..Len(v) |-> f(v[i], w[i])]

RSquare(a) == RMul(a, a)

\* np.sum((y - y_pred) ** 2)
SumSqDiff(y, y_pred) == RSum(Map1(RSquare, Map2(RSub, y, y_pred)))

\* np.sum((y - np.mean(y)) ** 2)
SumSqDev(y) == RSum([i \in 1..Len(y) |-> RSquare(RSub(y[i], RMean(y)))])

\* mutant: the guard is dropped, R^2 is always 1 - ss_res / ss_tot
RSquaredUnguarded(y, y_pred) ==
    RSub(Rat(1), RDiv(SumSqDiff(y, y_pred), SumSqDev(y)))

\* r_sq = 1.0 - ss_res / ss_tot if ss_tot > 0 else 0.0
\* (fit_straight_line lines 35-37, fit_cmc lines 200-202, fit_single_slit
\* lines 341-343)
RSquared(y, y_pred) ==
    LET ss_res == SumSqDiff(y, y_pred)
        ss_tot == SumSqDev(y)
    IN  IF RLess(Rat(0), ss_tot) THEN RSub(Rat(1), RDiv(ss_res, ss_tot)) ELSE Rat(0)

\* abs(denom) < 1e-15.  A nonzero fraction with a denominator below 2^31 is
\* at least 2^-31 in absolute value, so on the numbers of this model the
\* test is true exactly of 0
BelowTolerance(a) == ~IsNaN(a) /\ a[1] = 0

\* what fit_straight_line raises
Raised(e) == [exc |-> e.msg]

\* mutant: the intercept is taken as the mean of y (the slope term is lost)
InterceptNoSlope(sum_x, sum_y, m, n) == RDiv(sum_y, Rat(n))

\* c = (sum_y - m * sum_x) / n  (line 31)
Intercept(sum_x, sum_y, m, n) == RDiv(RSub(sum_y, RMul(m, sum_x)), Rat(n))

\* if abs(denom) < 1e-15 (line 27)
Degenerate(denom) == BelowTolerance(denom)

\* fit_straight_line(points), lines 15-53: points is a sequence of <<x, y>>
fit_straight_line(points) ==
    LET x == [i \in 1..Len(points) |-> points[i][1]]
        y == [i \in 1..Len(points) |-> points[i][2]]
        n == Len(x)
        sum_x == RSum(x)
        sum_y == RSum(y)
        sum_xy == RSum(Map2(RMul, x, y))
        sum_x2 == RSum(Map1(RSquare, x))
        denom == RSub(RMul(Rat(n), sum_x2), RSquare(sum_x))
        m == RDiv(RSub(RMul(Rat(n), sum_xy), RMul(sum_x, sum_y)), denom)
        c == Intercept(sum_x, sum_y, m, n)
        y_pred == [i \in 1..n |-> RAdd(RMul(m, x[i]), c)]
    IN  IF Degenerate(denom)
        THEN Raised(DegenerateX)
        ELSE [exc |-> "none", m |-> m, c |-> c, r_squared |-> RSquared(y, y_pred)]

\* the values an input cell can hold
Coords == {Rat(k) : k \in 0..MaxCoord}

\* the points matrices of 2 columns the dispatcher passes on (2 rows or more)
LinePoints == UNION {[1..k -> [1..2 -> Coords]] : k \in 2..MaxPoints}

-----------------------------------------------------------------------------
(* services/fitting.py in float64 arithmetic (np.array(points,             *)
(* dtype=float), line 15).  A float is a record [s, m, e] of value         *)
(* (-1)^s * m * 2^e: s is the sign (0 or 1), e the exponent, and m the     *)
(* significand, a natural number held as the sequence of its digits in     *)
(* base 2^13, least significant first, without leading zeros.  The         *)
(* significand of a float other than zero is odd and has at most Precision *)
(* bits.  An operation computes the exact result and rounds it to the      *)
(* nearest float, ties to even.  The exponent is not bounded: the values   *)
(* met here are far from the overflow and underflow thresholds.            *)

\* significand bits of a float64
Precision == 53

\* Bound of the inputs: 2..FloatMaxPoints points
FloatMaxPoints == 3

\* the digits are 13 bits wide, so that a product of two digits fits an integer
Base == 2^13

RECURSIVE Digits(_)
Digits(n) == IF n = 0 THEN <<>> ELSE <<n % Base>> \o Digits(n \div Base)

\* drop the leading zero digits (at the end of the sequence)
Trim(a) ==
    LET t == SubSeq(a, 1, Len(a))
        used == {i \in 1..Len(t) : t[i] # 0}
    IN  IF used = {} THEN <<>>
        ELSE SubSeq(t, 1, CHOOSE i \in used : \A j \in used : j <= i)

Digit(a, i) == IF i <= Len(a) THEN a[i] ELSE 0

\* a + b: position i receives a carry when some position j below it overflows
\* and every position between them is full
BAdd(a, b) ==
    LET n == IF Len(a) < Len(b) THEN Len(b) ELSE Len(a)
        carry(i) == \E j \in 1..(i - 1) :
                       /\ Digit(a, j) + Digit(b, j) >= Base
                       /\ \A k \in (j + 1)..(i - 1) : Digit(a, k) + Digit(b, k) = Base - 1
    IN  Trim([i \in 1..(n + 1) |->
                (Digit(a, i) + Digit(b, i) + (IF carry(i) THEN 1 ELSE 0)) % Base])

\* a - b for a >= b: position i lends when some position j below it is short
\* and every position between them is level
BSub(a, b) ==
    LET borrow(i) == \E j \in 1..(i - 1) :
                        /\ a[j] < Digit(b, j)
                        /\ \A k \in (j + 1)..(i - 1) : a[k] = Digit(b, k)
    IN  Trim([i \in 1..Len(a) |->
                (a[i] - Digit(b, i) - (IF borrow(i) THEN 1 ELSE 0) + Base) % Base])

\* a < b
BLess(a, b) ==
    \/ Len(a) < Len(b)
    \/ /\ Len(a) = Len(b)
       /\ \E i \in 1..Len(a) :
             /\ a[i] < b[i]
             /\ \A j \in (i + 1)..Len(a) : a[j] = b[j]

\* a * d for d <= Base: the low halves of the digit products, plus the high
\* halves one position up
BScale(a, d) ==
    BAdd(Trim([i \in 1..Len(a) |-> (a[i] * d) % Base]),
         Trim([i \in 1..(Len(a) + 1) |-> IF i = 1 THEN 0 ELSE (a[i - 1] * d) \div Base]))

\* a * Base^k
ShiftDigits(a, k) == IF a = <<>> THEN <<>> ELSE [i \in 1..k |-> 0] \o a

\* the sum of the products a[i] * b[j] with i + j = k + 1, from a[i] on
RECURSIVE Column(_, _, _, _)
Column(a, b, k, i) ==
    IF i > Len(a) THEN 0
    ELSE (IF k + 1 - i \in 1..Len(b) THEN a[i] * b[k + 1 - i] ELSE 0)
         + Column(a, b, k, i + 1)

\* a * b for a of at most 31 digits: each column sum is below 2^31 and has
\* three digits, which go to three numbers that are added
BMulColumns(a, b) ==
    LET n == Len(a) + Len(b)
        col == SubSeq([k \in 1..n |-> Column(a, b, k, 1)], 1, n)
    IN  BAdd(BAdd(Trim([k \in 1..n |-> col[k] % Base]),
                  Trim([k \in 1..(n + 1) |->
                          IF k = 1 THEN 0 ELSE (col[k - 1] \div Base) % Base])),
             Trim([k \in 1..(n + 2) |->
                     IF k <= 2 THEN 0 ELSE col[k - 2] \div (Base * Base)]))

\* a * b
BMul(a, b) == IF Len(a) <= Len(b) THEN BMulColumns(a, b) ELSE BMulColumns(b, a)

\* number of bits of a
BitLen(a) ==
    IF a = <<>> THEN 0
    ELSE 13 * (Len(a) - 1)
         + (CHOOSE k \in 1..13 : 2^(k - 1) <= a[Len(a)] /\ a[Len(a)] < 2^k)

\* number of zero bits at the low end of a, for a > 0
TrailingZeros(a) ==
    LET i == CHOOSE i \in 1..Len(a) : a[i] # 0 /\ \A j \in 1..(i - 1) : a[j] = 0
        t == CHOOSE t \in 0..12 : a[i] % 2^t = 0 /\ a[i] % 2^(t + 1) # 0
    IN  13 * (i - 1) + t

\* a * 2^k
ShiftLeft(a, k) == ShiftDigits(BScale(a, 2^(k % 13)), k \div 13)

\* a \div 2^k
ShiftRight(a, k) ==
    LET s == k \div 13
        t == k % 13
        n == Len(a) - s
    IN  IF n <= 0 THEN <<>>
        ELSE Trim([i \in 1..n |->
                     (a[s + i] \div 2^t) + (Digit(a, s + i + 1) % 2^t) * 2^(13 - t)])

\* r \div b for b <= r < b * Base, the leading digit of b being Base / 2 or
\* more: the quotient of the two leading digits of r by the leading digit of b
\* is the digit looked for or exceeds it by at most 2
QuotDigit(r, b) ==
    LET t == Len(b)
        est == (Digit(r, t + 1) * Base + r[t]) \div b[t]
        top == IF est < Base THEN est ELSE Base - 1
    IN  CHOOSE q \in {top - 2, top - 1, top} :
           q >= 0 /\ ~BLess(r, BScale(b, q)) /\ BLess(r, BScale(b, q + 1))

\* long division of the digits i, i-1, .. 1 of a by b, quot and rem being
\* what the digits above i gave: <<quotient, remainder>>
RECURSIVE DivModFrom(_, _, _, _, _)
DivModFrom(a, b, i, quot, rem) ==
    IF i = 0 THEN <<quot, rem>>
    ELSE LET r == Trim(<<a[i]>> \o rem)
         IN  IF BLess(r, b)
             THEN DivModFrom(a, b, i - 1, <<0>> \o quot, r)
             ELSE LET q == QuotDigit(r, b)
                  IN  DivModFrom(a, b, i - 1, <<q>> \o quot, BSub(r, BScale(b, q)))

\* <<a \div b, a % b>> for b > 0: both are scaled to bring the leading digit
\* of b to Base / 2 or more, which leaves the quotient as it is; the leading
\* digits of a, one fewer than b has, start the remainder
DivMod(a, b) ==
    LET s == 13 * Len(b) - BitLen(b)
        as == ShiftLeft(a, s)
        bs == ShiftLeft(b, s)
        low == IF Len(as) < Len(bs) THEN 0 ELSE Len(as) - Len(bs) + 1
        qr == DivModFrom(as, bs, low, <<>>, SubSeq(as, low + 1, Len(as)))
    IN  <<Trim(qr[1]), ShiftRight(qr[2], s)>>

Zero == [s |-> 0, m |-> <<>>, e |-> 0]

\* what a division by zero leaves behind (numpy: nan or inf, and a warning)
FNaN == [s |-> 2, m |-> <<>>, e |-> 0]

IsFNaN(a) == a.s = 2

\* the record of (-1)^s * m * 2^e with an odd significand
Normal(s, m, e) ==
    IF m = <<>> THEN Zero
    ELSE LET t == TrailingZeros(m)
         IN  [s |-> s, m |-> ShiftRight(m, t), e |-> e + t]

FromInt(n) == Normal(IF n < 0 THEN 1 ELSE 0, Digits(Abs(n)), 0)

\* round to the nearest float64, ties to even
Round(a) ==
    IF BitLen(a.m) <= Precision THEN a
    ELSE LET k == BitLen(a.m) - Precision
             kept == ShiftRight(a.m, k)
             rest == BSub(a.m, ShiftLeft(kept, k))
             half == ShiftLeft(<<1>>, k - 1)
             up == BLess(half, rest) \/ (rest = half /\ kept[1] % 2 = 1)
         IN  Normal(a.s, IF up THEN BAdd(kept, <<1>>) ELSE kept, a.e + k)

\* the exact operations: sums and products of floats are such records too,
\* with significands of any length
ENeg(a) == IF a.m = <<>> THEN a ELSE [a EXCEPT !.s = 1 - a.s]

EAbs(a) == IF a.m = <<>> THEN a ELSE [a EXCEPT !.s = 0]

EAdd(a, b) ==
    IF IsFNaN(a) \/ IsFNaN(b) THEN FNaN
    ELSE IF a.m = <<>> THEN b
    ELSE IF b.m = <<>> THEN a
    ELSE LET e0 == IF a.e < b.e THEN a.e ELSE b.e
             ma == ShiftLeft(a.m, a.e - e0)
             mb == ShiftLeft(b.m, b.e - e0)
         IN  IF a.s = b.s THEN Normal(a.s, BAdd(ma, mb), e0)
             ELSE IF BLess(ma, mb) THEN Normal(b.s, BSub(mb, ma), e0)
             ELSE Normal(a.s, BSub(ma, mb), e0)

ESub(a, b) == EAdd(a, ENeg(b))

EMul(a, b) ==
    IF IsFNaN(a) \/ IsFNaN(b) THEN FNaN
    ELSE IF a.m = <<>> \/ b.m = <<>> THEN Zero
    ELSE Normal((a.s + b.s) % 2, BMul(a.m, b.m), a.e + b.e)

\* a < b
ELess(a, b) == LET d == ESub(a, b) IN d.s = 1 /\ d.m # <<>>

\* a <= b
ELeq(a, b) == LET d == ESub(b, a) IN d.s = 0

\* the float64 operations
FAdd(a, b) == Round(EAdd(a, b))

FSub(a, b) == Round(ESub(a, b))

FMul(a, b) == Round(EMul(a, b))

\* a / b: the quotient of the significands is taken to 55 bits or more and
\* one more bit tells whether the division left a remainder, which is all the
\* rounding needs
FDiv(a, b) ==
    IF IsFNaN(a) \/ IsFNaN(b) \/ b.m = <<>> THEN FNaN
    ELSE IF a.m = <<>> THEN Zero
    ELSE LET d == 55 + BitLen(b.m) - BitLen(a.m)
             k == IF d < 0 THEN 0 ELSE d
             qr == DivMod(ShiftLeft(a.m, k), b.m)
             q == BAdd(ShiftLeft(qr[1], 1), IF qr[2] = <<>> THEN <<>> ELSE <<1>>)
         IN  Round(Normal((a.s + b.s) % 2, q, a.e - b.e - k - 1))

\* np.sum of fewer than 8 values: added one by one, left to right
RECURSIVE FSumFrom(_, _, _)
FSumFrom(acc, v, i) == IF i > Len(v) THEN acc ELSE FSumFrom(FAdd(acc, v[i]), v, i + 1)

FSum(v) == FSumFrom(Zero, v, 1)

\* np.mean
FMean(v) == FDiv(FSum(v), FromInt(Len(v)))

\* a number of the request body: the decimal literal p / q (q a power of 10)
\* is read as the float nearest to it
Literal(d) == FDiv(FromInt(d[1]), FromInt(d[2]))

\* the literal 1e-15
Tolerance == FDiv(FromInt(1), FMul(FromInt(10000000), FromInt(100000000)))

\* the rows tried, as written in the request: x = 5 (the documented
\* degenerate example), x = 5.1, y = 0.1 throughout, and two neighbours of 2^26
RowLiterals ==
    { << <<5, 1>>, <<1, 1>> >>, << <<5, 1>>, <<2, 1>> >>, << <<5, 1>>, <<3, 1>> >>,
      << <<51, 10>>, <<1, 1>> >>, << <<51, 10>>, <<2, 1>> >>,
      << <<0, 1>>, <<1, 10>> >>, << <<1, 1>>, <<1, 10>> >>, << <<4, 1>>, <<1, 10>> >>,
      << <<67108865, 1>>, <<0, 1>> >>, << <<67108866, 1>>, <<1, 1>> >> }

\* the rows as the estimator receives them (arr = np.array(points,
\* dtype=float), line 15), each with the literals it was read from
FloatRows == {[row |-> r, x |-> Literal(r[1]), y |-> Literal(r[2])] : r \in RowLiterals}

\* x = arr[:, 0] and y = arr[:, 1] (lines 16-17)
FloatX(points) == [i \in 1..Len(points) |-> points[i].x]

FloatY(points) == [i \in 1..Len(points) |-> points[i].y]

\* v * w and v - w, element by element
Products(v, w) == SubSeq([i \in 1..Len(v) |-> FMul(v[i], w[i])], 1, Len(v))

Differences(v, w) == SubSeq([i \in 1..Len(v) |-> FSub(v[i], w[i])], 1, Len(v))

NoCall == [op |-> "none"]

\* a call of fit_straight_line (also reached through fit_photoelectric_h and
\* fit_polarization, which pass their points on unchanged: lines 290, 494)
CallFitStraightLine ==
    /\ num = NoCall
    /\ \E points \in LinePoints :
          num' = [op |-> "fit_straight_line", points |-> points,
                  result |-> fit_straight_line(points)]
    /\ UNCHANGED dvars

\* the end of fit_cmc, lines 199-202: y is the data, y_pred the model at the
\* parameters curve_fit returned, whatever they are
CallFitCmc ==
    /\ num = NoCall
    /\ \E n \in 2..MaxPoints : \E y \in [1..n -> Coords], y_pred \in [1..n -> Coords] :
          num' = [op |-> "fit_cmc", y |-> y, y_pred |-> y_pred,
                  result |-> [exc |-> "none", r_squared |-> RSquared(y, y_pred)]]
    /\ UNCHANGED dvars

\* the end of fit_single_slit, lines 340-343, likewise
CallFitSingleSlit ==
    /\ num = NoCall
    /\ \E n \in 2..MaxPoints : \E y \in [1..n -> Coords], y_pred \in [1..n -> Coords] :
          num' = [op |-> "fit_single_slit", y |-> y, y_pred |-> y_pred,
                  result |-> [exc |-> "none", r_squared |-> RSquared(y, y_pred)]]
    /\ UNCHANGED dvars

\* the caller has the result; the next call starts afresh
Return ==
    /\ num # NoCall
    /\ num' = NoCall
    /\ UNCHANGED dvars

\* fit_straight_line(points), lines 15-53, on float64 data.  The locals are
\* bound in the order of the statements; sum_x ** 2 is the rounded square of
\* sum_x.  The result records the locals ss_res and ss_tot beside the values
\* the function returns.
CallFitStraightLineFloat ==
    /\ num = NoCall
    /\ \E k \in 2..FloatMaxPoints : \E points \in [1..k -> FloatRows] :
       \E x \in {FloatX(points)}, y \in {FloatY(points)}, n \in {FromInt(k)} :
       \E sum_x \in {FSum(x)}, sum_y \in {FSum(y)} :
       \E sum_xy \in {FSum(Products(x, y))}, sum_x2 \in {FSum(Products(x, x))} :
       \E denom \in {FSub(FMul(n, sum_x2), FMul(sum_x, sum_x))} :
          IF ELess(EAbs(denom), Tolerance)
          THEN num' = [op |-> "fit_straight_line (float64)", points |-> points,
                       result |-> Raised(DegenerateX)]
          ELSE \E m \in {FDiv(FSub(FMul(n, sum_xy), FMul(sum_x, sum_y)), denom)} :
               \E c \in {FDiv(FSub(sum_y, FMul(m, sum_x)), n)} :
               \E y_pred \in {[i \in 1..k |-> FAdd(FMul(m, x[i]), c)]} :
               \E res \in {Differences(y, y_pred)}, mean \in {FMean(y)} :
               \E ss_res \in {FSum(Products(res, res))} :
               \E dev \in {[i \in 1..k |-> FSub(y[i], mean)]} :
               \E ss_tot \in {FSum(Products(dev, dev))} :
               \E r_sq \in {IF ELess(Zero, ss_tot)
                            THEN FSub(FromInt(1), FDiv(ss_res, ss_tot)) ELSE Zero} :
                  num' = [op |-> "fit_straight_line (float64)", points |-> points,
                          result |-> [exc |-> "none", m |-> m, c |-> c,
                                      r_squared |-> r_sq,
                                      ss_res |-> ss_res, ss_tot |-> ss_tot]]
    /\ UNCHANGED dvars

FloatNext ==
    \/ CallFitStraightLineFloat
    \/ Return

LinNext ==
    \/ CallFitStraightLine
    \/ CallFitCmc
    \/ CallFitSingleSlit
    \/ Return

Init == DInit /\ num = NoCall

Spec == Init /\ [][Next]_vars

LinSpec == Init /\ [][LinNext]_vars

FloatSpec == Init /\ [][FloatNext]_vars

-----------------------------------------------------------------------------
(* Properties of the dispatcher (Spec) *)

Finished == pc \in {"done", "failed"}

IsFit == req.kind = "fit"

IsWaves == req.kind = "fit-waves"

\* the estimators among the logged calls
EstimatorCalls == SelectSeq(calls, LAMBDA f : f \in Estimators)

PlotCalls == SelectSeq(calls, LAMBDA f : f = "generate_graph")

\* the points matrix passes the structural checks of lines 42-63
WellFormed(r) == ValidateFit(r).status = 0

\* the row the width check of the request's mode objects to first (0: none)
FirstOffendingRow(r) ==
    IF r.mode \notin MULTI_SERIES_MODES THEN FirstRowNot(r.points, 2)
    ELSE IF r.points = <<>> THEN 0
    ELSE IF r.points[1] < 2 THEN 1
    ELSE FirstRowNot(r.points, r.points[1])

\* C1 (as amended): a /fit request whose mode is not in the catalog never
\* invokes an estimator and never gets a FitResult or a plot; it ends with a
\* 400 error, which is the unknown-mode error exactly when the points matrix
\* passes the structural checks (at least 2 rows, every row of 2 values) and
\* the validation error otherwise.
C1_UnknownModeRejected ==
    (IsFit /\ req.mode \notin KnownModes) =>
        /\ calls = <<>>
        /\ fit_params = <<>>
        /\ graphs = 0
        /\ pc # "done"
        /\ pc = "failed" =>
              /\ response.status = 400
              /\ (response.detail = "Unknown fitting mode") <=> WellFormed(req)
              /\ ~WellFormed(req) => response = ValidateFit(req)

\* C1 witness: an unknown mode with a well-formed matrix got the unknown-mode error
C1_Witness ==
    /\ IsFit
    /\ req.mode = "not-a-real-mode"
    /\ pc = "failed"
    /\ response.detail = "Unknown fitting mode"

\* C1 as stated: whatever the points matrix, an unknown mode ends with the
\* unknown-mode error.
C1_Original ==
    (IsFit /\ req.mode \notin KnownModes /\ Finished) =>
        /\ response.detail = "Unknown fitting mode"
        /\ calls = <<>>

StageOrder == <<"Validating", "Fitting", "Plotting", "Done">>

IsPrefix(s, t) == Len(s) <= Len(t) /\ \A i \in 1..Len(s) : s[i] = t[i]

StageRank(p) ==
    CASE p = "idle" -> 0
      [] StageOf(p) = "Validating" -> 1
      [] StageOf(p) = "Fitting" -> 2
      [] StageOf(p) = "Plotting" -> 3
      [] p = "respond" -> 3
      [] OTHER -> 4

\* the estimators a request needs a result of before plotting
Needed(r) ==
    IF r.kind = "fit" THEN <<EstimatorOf(r.mode)>>
    ELSE <<"fit_waves_rope", "fit_waves_sound">>

\* C2, the state part: the stages entered so far are a prefix of Validating,
\* Fitting, Plotting, Done ending with the handler's current stage; every
\* function is invoked at most once per table; plotting has started only
\* with the results of all the request's estimators; success only with all
\* its plots; a failed rope fit leaves the sound fit and both plots unrun.
C2_State ==
    (pc # "idle") =>
        /\ IsPrefix(stages, StageOrder)
        /\ stages # <<>>
        /\ pc # "failed" => stages[Len(stages)] = StageOf(IF pc = "respond" THEN "plot" ELSE pc)
        /\ IsPrefix(EstimatorCalls, Needed(req))
        /\ Len(PlotCalls) <= Len(Needed(req))
        /\ PlotCalls # <<>> => fit_params = Needed(req)
        /\ (\E i \in 1..Len(stages) : stages[i] = "Plotting") => fit_params = Needed(req)
        /\ pc = "done" <=> response.status = 200
        /\ pc = "done" => graphs = Len(Needed(req)) /\ stages = StageOrder
        /\ pc = "failed" => response.status \in {400, 500} /\ graphs < Len(Needed(req))
        /\ response.detail = "Rope wave fitting error" =>
              calls = <<"fit_waves_rope">> /\ fit_params = <<>> /\ graphs = 0

\* C2: every request moves through Validating, Fitting, Plotting, Done in
\* that order, each entered at most once, never going back and with no
\* retry; the first error ends the request (the only step after it closes
\* the request); plotting starts only after the estimators returned and
\* success is produced only after plotting; a failed rope fit prevents the
\* sound fit and both plots.
C2_StagesInOrder ==
    [][ /\ C2_State'
        /\ pc = "failed" => pc' = "idle"
        /\ (pc # "idle" /\ pc' # "idle") =>
              /\ pc' # pc
              /\ StageRank(pc') >= StageRank(pc)
              /\ IsPrefix(stages, stages')
              /\ IsPrefix(calls, calls')
              /\ req' = req ]_vars

\* C2 witness: a waves request whose rope fit failed has ended
C2_Witness ==
    /\ IsWaves
    /\ pc = "failed"
    /\ response.detail = "Rope wave fitting error"
    /\ stages = <<"Validating", "Fitting">>

\* C3: a request with fewer than 2 rows is rejected with the too-few-points
\* validation error for every mode, before any row-width check (whatever
\* the widths of its rows) and before any estimator or plot is invoked; a
\* waves request likewise when either table has fewer than 2 rows.
C3_TooFewRowsRejected ==
    /\ (IsFit /\ Len(req.points) < 2) =>
          /\ calls = <<>> /\ fit_params = <<>> /\ graphs = 0
          /\ pc \in {"validate", "failed"}
          /\ pc = "failed" =>
                response = HTTPException(400, "Need at least 2 data points.", 0)
    /\ (IsWaves /\ (Len(req.rope_points) < 2 \/ Len(req.sound_points) < 2)) =>
          /\ calls = <<>> /\ fit_params = <<>> /\ graphs = 0
          /\ pc \in {"wvalidate", "failed"}
          /\ pc = "failed" =>
                /\ response.status = 400
                /\ response.row = 0
                /\ response.detail =
                      IF Len(req.rope_points) < 2
                      THEN "Need at least 2 rope data points."
                      ELSE "Need at least 2 sound data points."

\* C3 witness: a single row of the wrong width was rejected for the row count
C3_Witness ==
    /\ IsFit
    /\ req.points = <<3>>
    /\ req.mode = "pohls-damped"
    /\ pc = "failed"
    /\ response.detail = "Need at least 2 data points."

\* C4 (as amended): an estimator is invoked only on a matrix of uniform row
\* width fitting the mode's classification (single-series: every row 2
\* values; multi-series: every row as wide as the first, and that at least
\* 2); a request violating this is rejected with a validation error (400)
\* and no estimator runs.  The error names the first offending row when the
\* matrix has at least 2 rows and, for a multi-series mode, a first row of
\* at least 2 values; otherwise it is the too-few-points or the
\* too-few-columns error, which name no row.
C4_EstimatorOnlyOnUniformRows ==
    IsFit =>
        /\ calls # <<>> => WellFormed(req) /\ FirstOffendingRow(req) = 0
        /\ (FirstOffendingRow(req) # 0) =>
              /\ calls = <<>> /\ fit_params = <<>>
              /\ pc \in {"validate", "failed"}
              /\ pc = "failed" =>
                    /\ response.status = 400
                    /\ response.row \in {0, FirstOffendingRow(req)}
                    /\ response.row = 0 <=>
                          \/ Len(req.points) < 2
                          \/ req.mode \in MULTI_SERIES_MODES /\ req.points[1] < 2
                    /\ response.row = 0 =>
                          response.detail \in {"Need at least 2 data points.",
                                               "Need at least 2 columns."}

\* C4 witness: a multi-series request was rejected naming its first offending row
C4_Witness ==
    /\ IsFit
    /\ req.mode = "pohls-forced"
    /\ req.points = <<3, 3, 2>>
    /\ pc = "failed"
    /\ response.row = 3

\* C4 as stated: every request violating the width rule is rejected with a
\* validation error naming the first offending row.
C4_Original ==
    (IsFit /\ FirstOffendingRow(req) # 0 /\ Finished) =>
        /\ response.status = 400
        /\ response.row = FirstOffendingRow(req)
        /\ calls = <<>>

\* C5: no cmc request with fewer than 5 rows yields a FitResult or reaches
\* plotting; with fewer than 4 rows the dispatcher rejects it (400) before
\* the estimator is called; with exactly 4 rows (of 2 values each) the
\* dispatcher lets it through and the estimator rejects it for having fewer
\* than 5 points.
C5_CmcNeedsFivePoints ==
    (IsFit /\ req.mode = "cmc" /\ Len(req.points) < 5) =>
        /\ fit_params = <<>>
        /\ graphs = 0
        /\ PlotCalls = <<>>
        /\ pc \in {"validate", "fit", "failed"}
        /\ Len(req.points) < 4 =>
              /\ calls = <<>>
              /\ pc = "failed" => response.status = 400
        /\ (Len(req.points) = 4 /\ WellFormed(req) /\ pc = "failed") =>
              /\ calls = <<"fit_cmc">>
              /\ response = Wrapped("Fitting error", TooFewPoints)

\* C5 witness: a 4-row cmc request was rejected by the estimator
C5_Witness ==
    /\ IsFit
    /\ req.mode = "cmc"
    /\ req.points = <<2, 2, 2, 2>>
    /\ pc = "failed"
    /\ calls = <<"fit_cmc">>

\* the response reports a structural precondition failure: one of the
\* dispatcher's own checks, or an estimator's point-count or column-count check
StructuralFailure ==
    \/ response.detail \in {"Need at least 2 data points.", "Need at least 2 columns.",
                            "Row i must have exactly 2 values.",
                            "Row i has k values, expected width.",
                            "CMC fitting requires at least 4 data points.",
                            "Need at least 2 rope data points.",
                            "Need at least 2 sound data points.",
                            "Rope row i must have 3 values.",
                            "Sound row i must have 2 values."}
    \/ response.cause \in StructuralMsgs

\* C6 as stated: every structural precondition failure, detected by the
\* dispatcher or inside an estimator, reaches the caller in the
\* validation-error category (400) and never in the category of the
\* algorithmic fitting failures (500, "Fitting error").
C6_StructuralFailuresAreValidationErrors ==
    (pc = "failed" /\ StructuralFailure) =>
        /\ response.status = 400
        /\ response.detail # "Fitting error"

\* C7: a /fit request invokes at most one estimator, the one its mode maps
\* to; when that estimator fails no other estimator is invoked, no plot is
\* produced and the caller gets an error.
C7_OneEstimatorNoFallback ==
    IsFit =>
        /\ Len(EstimatorCalls) <= 1
        /\ EstimatorCalls # <<>> => EstimatorCalls = <<EstimatorOf(req.mode)>>
        /\ (EstimatorCalls # <<>> /\ fit_params = <<>>) =>
              /\ pc = "failed"
              /\ calls = <<EstimatorOf(req.mode)>>
              /\ graphs = 0
              /\ response.status = 500
              /\ response.detail = "Fitting error"
              /\ response.cause # "none"
        /\ fit_params # <<>> => fit_params = <<EstimatorOf(req.mode)>>

\* C7 witness: the estimator of a request failed with a convergence error
C7_Witness ==
    /\ IsFit
    /\ req.mode = "single-slit"
    /\ pc = "failed"
    /\ response.cause = SlitNotConverged.msg
    /\ calls = <<"fit_single_slit">>

\* a cmc request with enough well-formed rows whose estimator was called and
\* returned nothing
CmcSolverFailed ==
    /\ IsFit
    /\ req.mode = "cmc"
    /\ Len(req.points) >= 5
    /\ \E i \in DOMAIN calls : calls[i] = "fit_cmc"
    /\ fit_params = <<>>

\* C20: when the nonlinear solver of the CMC estimator does not converge or
\* rejects its inputs, the request fails with the fit-convergence error and
\* nothing else: no fit parameters, no graph, one call of fit_cmc, no retry
\* and no other estimator.
C20_SolverFailureIsConvergenceError ==
    CmcSolverFailed =>
        /\ pc = "failed"
        /\ response = Wrapped("Fitting error", CmcNotConverged)
        /\ response.status = 500
        /\ calls = <<"fit_cmc">>
        /\ graphs = 0

\* C20 witness: a 5-row cmc request failed in the solver
C20_Witness ==
    /\ CmcSolverFailed
    /\ req.points = <<2, 2, 2, 2, 2>>
    /\ response.cause = CmcNotConverged.msg

-----------------------------------------------------------------------------
(* Properties of the estimators' formulas in exact arithmetic (LinSpec) *)

IsLineCall == num.op = "fit_straight_line"

XOf(points) == [i \in 1..Len(points) |-> points[i][1]]

YOf(points) == [i \in 1..Len(points) |-> points[i][2]]

AllEqual(v) == \A i, j \in 1..Len(v) : v[i] = v[j]

\* the line through the first point and the first point with another x
LineThrough(points) ==
    LET j == CHOOSE k \in 1..Len(points) :
                 /\ points[k][1] # points[1][1]
                 /\ \A l \in 1..(k - 1) : points[l][1] = points[1][1]
        m0 == RDiv(RSub(points[j][2], points[1][2]), RSub(points[j][1], points[1][1]))
    IN  [m0 |-> m0, c0 |-> RSub(points[1][2], RMul(m0, points[1][1]))]

\* the points lie on a line y = m0 x + c0 and have at least 2 distinct x
OnALine(points) ==
    /\ ~AllEqual(XOf(points))
    /\ \A i \in 1..Len(points) :
          points[i][2] = RAdd(RMul(LineThrough(points).m0, points[i][1]),
                              LineThrough(points).c0)

\* The formulas of fit_straight_line, rounding apart (LinSpec): for at least
\* 2 points lying exactly on a line y = m0 x + c0 with at least 2 distinct
\* x-values, they give slope m0 and intercept c0 (any m0, any c0); r_squared
\* is 1 when m0 is not 0, and 0 when m0 = 0 (all y equal, the total sum of
\* squares is zero).
ExactLinearFit ==
    (IsLineCall /\ OnALine(num.points)) =>
        /\ num.result.exc = "none"
        /\ num.result.m = LineThrough(num.points).m0
        /\ num.result.c = LineThrough(num.points).c0
        /\ num.result.r_squared =
              IF LineThrough(num.points).m0 = Rat(0) THEN Rat(0) ELSE Rat(1)

\* three points on y = 1 - x/2 fitted exactly
ExactLinearFitWitness ==
    /\ IsLineCall
    /\ Len(num.points) = 3
    /\ OnALine(num.points)
    /\ num.result.m = <<0 - 1, 2>>
    /\ num.result.c = Rat(1)
    /\ num.result.r_squared = Rat(1)

\* rounding apart, r_squared is 1 for every such line, m0 = 0 included
\* (violated under LinSpec: a horizontal line gets r_squared 0)
ExactLinearFitAlwaysOne ==
    (IsLineCall /\ OnALine(num.points)) =>
        /\ num.result.exc = "none"
        /\ num.result.m = LineThrough(num.points).m0
        /\ num.result.c = LineThrough(num.points).c0
        /\ num.result.r_squared = Rat(1)

\* the target values and the predictions of the call in num
TargetY == IF IsLineCall THEN YOf(num.points) ELSE num.y

PredictedY ==
    IF IsLineCall
    THEN [i \in 1..Len(num.points) |->
             RAdd(RMul(num.result.m, num.points[i][1]), num.result.c)]
    ELSE num.y_pred

\* The R^2 expression, rounding apart (LinSpec): in the line fit, the CMC fit
\* and the single-slit fit, when all target y-values are identical (total sum
\* of squares zero) the returned r_squared is exactly 0 and nothing was
\* divided by zero; otherwise it is 1 - SS_res / SS_tot.
ExactRSquaredGuarded ==
    (num.op \in {"fit_straight_line", "fit_cmc", "fit_single_slit"}
        /\ num.result.exc = "none") =>
        /\ ~IsNaN(num.result.r_squared)
        /\ AllEqual(TargetY) <=> SumSqDev(TargetY) = Rat(0)
        /\ AllEqual(TargetY) => num.result.r_squared = Rat(0)
        /\ ~AllEqual(TargetY) =>
              num.result.r_squared =
                  RSub(Rat(1), RDiv(SumSqDiff(TargetY, PredictedY), SumSqDev(TargetY)))

\* a CMC fit of constant data with predictions off the data
ExactRSquaredWitness ==
    /\ num.op = "fit_cmc"
    /\ Len(num.y) = 3
    /\ AllEqual(num.y)
    /\ num.y_pred # num.y
    /\ num.result.r_squared = Rat(0)

-----------------------------------------------------------------------------
(* The line fit in float64 arithmetic (FloatSpec).                         *)

IsFloatCall == num.op = "fit_straight_line (float64)"

\* the first index whose value differs from the first value
FirstOther(v) ==
    CHOOSE k \in 1..Len(v) : v[k] # v[1] /\ \A l \in 1..(k - 1) : v[l] = v[1]

\* the points lie exactly on one line and have at least 2 distinct x: every
\* point is on the line through the first point and the first point with
\* another x (cross products, computed exactly)
Collinear(x, y) ==
    /\ ~AllEqual(x)
    /\ LET j == FirstOther(x)
       IN  \A i \in 1..Len(x) :
              EMul(ESub(y[i], y[1]), ESub(x[j], x[1]))
                 = EMul(ESub(y[j], y[1]), ESub(x[i], x[1]))

\* the literal 1e-9
RelTol == Literal(<<1, 1000000000>>)

\* |a - b| <= 1e-9 * |scale|, computed exactly
Within(a, b, scale) == ELeq(EAbs(ESub(a, b)), EMul(RelTol, EAbs(scale)))

\* C8: for at least 2 points lying exactly on a line y = m0 x + c0 with at
\* least 2 distinct x-values, fit_straight_line returns a result whose slope
\* is m0, whose intercept is c0 and whose r_squared is 1.  The claim is read
\* in its weakest form: equality within 1e-9 (relative to the differences of
\* the points), and r_squared demanded only when m0 is not 0.  With dx, dy
\* the differences between two points of the line, m0 = dy / dx and
\* c0 = (y1 dx - dy x1) / dx, and both sides of each comparison are
\* multiplied by dx.
C8_LinearFitOfALine ==
    (IsFloatCall /\ Collinear(FloatX(num.points), FloatY(num.points))) =>
        LET x == FloatX(num.points)
            y == FloatY(num.points)
            j == FirstOther(x)
            dx == ESub(x[j], x[1])
            dy == ESub(y[j], y[1])
        IN  /\ num.result.exc = "none"
            /\ Within(EMul(num.result.m, dx), dy, dx)
            /\ Within(EMul(num.result.c, dx),
                      ESub(EMul(y[1], dx), EMul(dy, x[1])), dx)
            /\ dy # Zero => Within(num.result.r_squared, FromInt(1), FromInt(1))

\* C9: whenever all x-values given to fit_straight_line are identical it
\* fails with the degenerate-input error and returns no result.
C9_IdenticalXRejected ==
    (IsFloatCall /\ AllEqual(FloatX(num.points))) =>
        num.result.exc = DegenerateX.msg

\* C10, for the line fit: when all target y-values are identical the
\* returned r_squared is exactly 0.0 and nothing was divided by zero;
\* otherwise it is 1 - SS_res / SS_tot.
C10_ConstantTargetGivesZero ==
    (IsFloatCall /\ num.result.exc = "none") =>
        /\ ~IsFNaN(num.result.r_squared)
        /\ AllEqual(FloatY(num.points)) => num.result.r_squared = Zero
        /\ ~AllEqual(FloatY(num.points)) =>
              num.result.r_squared =
                  FSub(FromInt(1), FDiv(num.result.ss_res, num.result.ss_tot))

\* C11, for the line fit: on at least 2 points with not-all-identical
\* x-values, the r_squared returned satisfies 0 <= r_squared <= 1.
C11_RSquaredInUnitInterval ==
    (IsFloatCall /\ ~AllEqual(FloatX(num.points)) /\ num.result.exc = "none") =>
        /\ ELeq(Zero, num.result.r_squared)
        /\ ELeq(num.result.r_squared, FromInt(1))

-----------------------------------------------------------------------------
(* The result dicts of the estimators (ResultSpec).  A dict is the function *)
(* from its keys to the Python type of each value, except series_labels and *)
(* series_count, which hold their values.  The data of a call is reduced to *)
(* what decides the shape of the result.                                    *)

\* result[key] = value, and a key of a dict literal
With(dict, key, value) ==
    [k \in DOMAIN dict \cup {key} |-> IF k = key THEN value ELSE dict[k]]

Value(dict) == [exc |-> "none", value |-> dict]

\* fit_straight_line, lines 44-53
LineDict ==
    [m |-> "float", c |-> "float", equation |-> "str", r_squared |-> "float",
     description |-> "str"]

\* the k-th entry of the request's columns, and the default label f"{prefix}{i}"
ColumnName(k) == [text |-> "column", i |-> k]
DefaultLabel(prefix, i) == [text |-> prefix, i |-> i]

\* series_labels of the multi-series estimators (lines 260-263, 401-404,
\* 456-459): columns[1:] when columns has more than one entry, else the
\* positional defaults.  columns is the number of entries of the list.
SeriesLabels(columns, series_count, prefix) ==
    IF columns > 1
    THEN [i \in 1..(columns - 1) |-> ColumnName(i + 1)]
    ELSE [i \in 1..series_count |-> DefaultLabel(prefix, i)]

\* the dict literal the multi-series and grouped estimators return (lines
\* 271-282, 430-440, 475-486, 555-565)
SeriesDict(equation, payload, labels, series_count) ==
    With([equation |-> equation, description |-> "str", series_labels |-> labels,
          series_count |-> series_count, r_squared |-> "NoneType"],
         payload, "dict")

\* "; ".join(eq_parts) of fit_photoelectric_vi, fit_pohls_forced: a string,
\* empty when there are no parts
Joined == "str"

\* mutant: no equation when no series was fitted
DampedEquationOrNone(fitted) == IF fitted = <<>> THEN "NoneType" ELSE Joined

\* fit_pohls_damped, line 431
DampedEquation(fitted) == IF fitted = <<>> THEN "str" ELSE Joined

\* the loop of fit_photoelectric_vi (lines 266-269) and of fit_pohls_forced
\* (lines 464-473) from series i on: series_labels[i] raises IndexError
\* past the end of the labels
RECURSIVE LabelLoop(_, _, _)
LabelLoop(i, series_count, labels) ==
    IF i > series_count THEN "done"
    ELSE IF i > Len(labels) THEN LabelIndexError.msg
    ELSE LabelLoop(i + 1, series_count, labels)

\* the loop of fit_pohls_damped (lines 409-428) from series i on: the label
\* is read first, a series with fewer than 2 positive amplitudes is skipped,
\* the line fit of a series may raise; fitted collects the labels of
\* series_fits
RECURSIVE DampedLoop(_, _, _, _)
DampedLoop(i, inp, labels, fitted) ==
    IF i > inp.series THEN [exc |-> "none", fitted |-> fitted]
    ELSE IF i > Len(labels) THEN Raised(LabelIndexError)
    ELSE IF i \notin inp.valid THEN DampedLoop(i + 1, inp, labels, fitted)
    ELSE IF i \in inp.failing THEN Raised(DegenerateX)
    ELSE DampedLoop(i + 1, inp, labels, Append(fitted, labels[i]))

\* the loop of fit_waves_rope (lines 523-550) from group idx on: a group with
\* fewer than 2 rows is skipped, the others are labelled T{idx + 1}
RECURSIVE RopeLoop(_, _, _)
RopeLoop(idx, inp, fitted) ==
    IF idx > inp.series THEN [exc |-> "none", fitted |-> fitted]
    ELSE IF idx \notin inp.valid THEN RopeLoop(idx + 1, inp, fitted)
    ELSE IF idx \in inp.failing THEN Raised(DegenerateX)
    ELSE RopeLoop(idx + 1, inp, Append(fitted, DefaultLabel("T", idx)))

\* an estimator that calls fit_straight_line and adds keys to its result
\* (lines 290-304, 370-384, 494-505, 590-602)
RECURSIVE WithAll(_, _)
WithAll(dict, entries) ==
    IF entries = <<>> THEN dict
    ELSE WithAll(With(dict, entries[1][1], entries[1][2]), Tail(entries))

LineBased(inp, entries) ==
    IF inp.failing # {} THEN Raised(DegenerateX)
    ELSE Value(WithAll(LineDict, entries))

\* the multi-series estimators without a skip (fit_photoelectric_vi, lines
\* 247-282; fit_pohls_forced, lines 443-486)
MultiSeries(inp, prefix, payload) ==
    IF inp.series < 1 THEN Raised(TooFewColumns)
    ELSE LET labels == SeriesLabels(inp.columns, inp.series, prefix)
         IN  IF LabelLoop(1, inp.series, labels) # "done"
             THEN Raised(LabelIndexError)
             ELSE Value(SeriesDict(Joined, payload, labels, inp.series))

\* fit_pohls_damped, lines 387-440
fit_pohls_damped(inp) ==
    IF inp.series < 1 THEN Raised(TooFewColumns)
    ELSE LET labels == SeriesLabels(inp.columns, inp.series, "I_d = ")
             loop == DampedLoop(1, inp, labels, <<>>)
         IN  IF loop.exc # "none" THEN loop
             ELSE Value(SeriesDict(DampedEquation(loop.fitted), "series_fits",
                                   labels, inp.series))

\* fit_waves_rope, lines 508-565
fit_waves_rope(inp) ==
    LET loop == RopeLoop(1, inp, <<>>)
    IN  IF loop.exc # "none" THEN loop
        ELSE IF loop.fitted = <<>> THEN Raised(NoValidGroups)
        ELSE Value(SeriesDict("str", "series_fits", loop.fitted, Len(loop.fitted)))

\* fit_cmc, lines 175-229, and fit_single_slit, lines 327-355
SolverBased(inp, error, keys) ==
    IF inp.solver # "converged" THEN Raised(error)
    ELSE Value([k \in keys \cup {"equation", "description"} |->
                   IF k \in {"equation", "description"} THEN "str" ELSE "float"])

\* the result of estimator est on a call of shape inp
EstimatorResult(est, inp) ==
    CASE est = "fit_straight_line" -> LineBased(inp, <<>>)
      [] est = "fit_cmc" ->
            SolverBased(inp, CmcNotConverged,
                        {"cmc_value", "cmc_surface_tension", "a", "b", "c",
                         "equation_pre_cmc", "equation_post_cmc", "r_squared"})
      [] est = "fit_photoelectric_vi" ->
            MultiSeries(inp, "Series ", "stopping_potentials")
      [] est = "fit_photoelectric_h" ->
            LineBased(inp, << <<"equation", "str">>, <<"description", "str">>,
                              <<"h_calculated", "float">>, <<"h_actual", "float">>,
                              <<"work_function_over_e", "float">> >>)
      [] est = "fit_single_slit" ->
            SolverBased(inp, SlitNotConverged, {"I0", "alpha", "theta0", "r_squared"})
      [] est = "fit_newtons_rings" ->
            LineBased(inp, << <<"equation", "str">>, <<"description", "str">>,
                              <<"slope_4Rlambda", "float">>,
                              <<"transformed_points", "list">> >>)
      [] est = "fit_pohls_damped" -> fit_pohls_damped(inp)
      [] est = "fit_pohls_forced" -> MultiSeries(inp, "Damping ", "resonances")
      [] est = "fit_polarization" ->
            LineBased(inp, << <<"equation", "str">>, <<"description", "str">>,
                              <<"specific_rotation_times_l", "float">> >>)
      [] est = "fit_waves_rope" -> fit_waves_rope(inp)
      [] est = "fit_waves_sound" ->
            IF inp.valid = {} THEN Raised(ZeroFrequency)
            ELSE LineBased(inp, << <<"equation", "str">>, <<"description", "str">>,
                                   <<"phase_velocity", "float">>,
                                   <<"transformed_points", "list">> >>)

MultiSeriesEstimators ==
    {"fit_photoelectric_vi", "fit_pohls_damped", "fit_pohls_forced"}

\* the shapes of the calls of estimator est.  series: the number of data
\* columns after the first (of groups, for the rope).  columns: the length of
\* the columns argument.  valid: the series (groups) that pass the
\* estimator's filter (2 positive amplitudes, 2 rows; for sound, the
\* frequency column holds no zero).  failing: the series (groups) whose line
\* fit raises.  solver: how curve_fit ends.
ShapeInputs(est) ==
    LET multi == est \in MultiSeriesEstimators
        grouped == est = "fit_waves_rope"
        filtered == est \in {"fit_pohls_damped", "fit_waves_rope", "fit_waves_sound"}
        solved == est \in {"fit_cmc", "fit_single_slit"}
        lines == est \notin {"fit_cmc", "fit_single_slit", "fit_photoelectric_vi",
                             "fit_pohls_forced"}
        all == 1..(MaxWidth - 1)
    IN  { inp \in [series : 0..(MaxWidth - 1), columns : 0..MaxCols,
                   valid : SUBSET all, failing : SUBSET all,
                   solver : CurveFitOutcomes] :
            /\ IF multi THEN TRUE
               ELSE IF grouped THEN inp.series >= 1
               ELSE inp.series = 1
            /\ multi \/ inp.columns = 0
            /\ inp.valid \subseteq 1..inp.series
            /\ filtered \/ inp.valid = 1..inp.series
            /\ inp.failing \subseteq inp.valid
            /\ lines \/ inp.failing = {}
            /\ solved \/ inp.solver = "converged" }

\* a call of an estimator, seen by the shape of its result
CallEstimator ==
    /\ num = NoCall
    /\ \E est \in Estimators : \E inp \in ShapeInputs(est) :
          num' = [op |-> "result", est |-> est, inp |-> inp,
                  result |-> EstimatorResult(est, inp)]
    /\ UNCHANGED dvars

ResultNext ==
    \/ CallEstimator
    \/ Return

ResultSpec == Init /\ [][ResultNext]_vars

IsResultCall == num.op = "result"

HasResult == IsResultCall /\ num.result.exc = "none"

\* C12: every result an estimator returns holds equation (a string),
\* description (a string) and r_squared (a number, or None for the multi-series
\* and grouped estimators), also when a per-series estimator fitted no series.
C12_ResultHasCommonKeys ==
    HasResult =>
        LET dict == num.result.value
        IN  /\ {"equation", "description", "r_squared"} \subseteq DOMAIN dict
            /\ dict.equation = "str"
            /\ dict.description = "str"
            /\ dict.r_squared =
                  IF num.est \in MultiSeriesEstimators \cup {"fit_waves_rope"}
                  THEN "NoneType" ELSE "float"

\* C12 witness: fit_pohls_damped returned although it fitted no series
C12_Witness ==
    /\ HasResult
    /\ num.est = "fit_pohls_damped"
    /\ num.inp.series = 2
    /\ num.inp.valid = {}

\* C13: in every result of a multi-series estimator, whatever the columns
\* argument, the number of series labels is the number of data columns minus
\* one, and the labels are the positional defaults when columns is empty.
C13_OneLabelPerSeries ==
    (HasResult /\ num.est \in MultiSeriesEstimators) =>
        LET dict == num.result.value
        IN  /\ Len(dict.series_labels) = num.inp.series
            /\ dict.series_count = num.inp.series
            /\ num.inp.columns = 0 =>
                  \A i \in 1..num.inp.series :
                      dict.series_labels[i].i = i
                      /\ dict.series_labels[i].text # "column"

-----------------------------------------------------------------------------
(* The zero crossing of a current series and the Newton's-rings transform, *)
(* in exact arithmetic (SeriesSpec)                                        *)

RAbs(a) == IF RLess(a, Rat(0)) THEN RNeg(a) ELSE a

RLeq(a, b) == ~IsNaN(a) /\ ~IsNaN(b) /\ a[1] * b[2] <= b[1] * a[2]

\* round(v, 4): the nearest multiple of 1/10000, a tie going to the even one
Round4(v) ==
    LET scaled == v[1] * 10000
        q == scaled \div v[2]
        twice == 2 * (scaled % v[2])
    IN  IF IsNaN(v) THEN NaN
        ELSE IF twice < v[2] THEN Norm(q, 10000)
        ELSE IF twice > v[2] THEN Norm(q + 1, 10000)
        ELSE Norm(IF q % 2 = 0 THEN q ELSE q + 1, 10000)

\* y[j] * y[j + 1] <= 0 and y[j] != y[j + 1]  (line 239)
Crosses(y, j) ==
    /\ RLeq(RMul(y[j], y[j + 1]), Rat(0))
    /\ y[j] # y[j + 1]

\* mutant: the middle of the pair
CrossingAtMiddle(x, y, j) == RDiv(RAdd(x[j], x[j + 1]), Rat(2))

\* x[j] + (0 - y[j]) * (x[j + 1] - x[j]) / (y[j + 1] - y[j])  (line 241)
CrossingAt(x, y, j) ==
    RAdd(x[j], RDiv(RMul(RSub(Rat(0), y[j]), RSub(x[j + 1], x[j])),
                    RSub(y[j + 1], y[j])))

\* np.argmin(np.abs(y)) from index i on, best being the index found so far:
\* the first index of the smallest absolute value, or of the first nan
RECURSIVE ArgMinAbs(_, _, _)
ArgMinAbs(y, i, best) ==
    IF i > Len(y) THEN best
    ELSE ArgMinAbs(y, i + 1,
             IF ~IsNaN(y[best]) /\ (IsNaN(y[i]) \/ RLess(RAbs(y[i]), RAbs(y[best])))
             THEN i ELSE best)

\* _find_zero_crossing(x, y), lines 236-244, the loop from index j on
RECURSIVE FindZeroCrossingFrom(_, _, _)
FindZeroCrossingFrom(x, y, j) ==
    IF j > Len(y) - 1 THEN x[ArgMinAbs(y, 1, 1)]
    ELSE IF Crosses(y, j) THEN CrossingAt(x, y, j)
    ELSE FindZeroCrossingFrom(x, y, j + 1)

find_zero_crossing(x, y) == FindZeroCrossingFrom(x, y, 1)

\* the currents a cell can hold
Currents == {Rat(k) : k \in (0 - MaxCoord)..MaxCoord}

\* the bias voltages after arr[arr[:, 0].argsort()] (line 253)
SortedX(n) == {x \in [1..n -> Coords] : \A i \in 1..(n - 1) : RLeq(x[i], x[i + 1])}

\* fit_photoelectric_vi, lines 252-269, for one current series y over the
\* sorted bias voltages x: v_stop, and the entry of stopping_potentials
CallFitPhotoelectricVi ==
    /\ num = NoCall
    /\ \E n \in 2..MaxPoints : \E x \in SortedX(n), y \in [1..n -> Currents] :
       \E v_stop \in {find_zero_crossing(x, y)} :
          num' = [op |-> "fit_photoelectric_vi", x |-> x, y |-> y,
                  v_stop |-> v_stop, stopping_potential |-> Round4(v_stop)]
    /\ UNCHANGED dvars

\* mutant: the line is fitted to the raw points
fit_newtons_rings_raw(points) ==
    LET transformed == [i \in 1..Len(points) |->
                           <<points[i][1], RSquare(points[i][2])>>]
        result == fit_straight_line(points)
    IN  IF result.exc # "none" THEN result
        ELSE [exc |-> "none", m |-> result.m, c |-> result.c,
              r_squared |-> result.r_squared, slope_4Rlambda |-> result.m,
              transformed_points |-> transformed]

\* fit_newtons_rings(points), lines 364-384: points is a sequence of <<n, D>>
fit_newtons_rings(points) ==
    LET transformed == [i \in 1..Len(points) |->
                           <<points[i][1], RSquare(points[i][2])>>]
        result == fit_straight_line(transformed)
    IN  IF result.exc # "none" THEN result
        ELSE [exc |-> "none", m |-> result.m, c |-> result.c,
              r_squared |-> result.r_squared, slope_4Rlambda |-> result.m,
              transformed_points |-> transformed]

CallFitNewtonsRings ==
    /\ num = NoCall
    /\ \E points \in LinePoints :
          num' = [op |-> "fit_newtons_rings", points |-> points,
                  result |-> fit_newtons_rings(points)]
    /\ UNCHANGED dvars

SeriesNext ==
    \/ CallFitPhotoelectricVi
    \/ CallFitNewtonsRings
    \/ Return

SeriesSpec == Init /\ [][SeriesNext]_vars

IsViCall == num.op = "fit_photoelectric_vi"

\* the adjacent pair (j, j + 1) of currents changes sign: the two differ and
\* are not on the same side of zero
ChangesSign(y, j) ==
    /\ y[j] # y[j + 1]
    /\ ~(RLess(Rat(0), y[j]) /\ RLess(Rat(0), y[j + 1]))
    /\ ~(RLess(y[j], Rat(0)) /\ RLess(y[j + 1], Rat(0)))

SignChanges(y) == {j \in 1..(Len(y) - 1) : ChangesSign(y, j)}

FirstSignChange(y) == CHOOSE j \in SignChanges(y) : \A k \in SignChanges(y) : j <= k

\* v is where the line through (x[j], y[j]) and (x[j + 1], y[j + 1]) is zero,
\* and lies between x[j] and x[j + 1]
IsInterpolatedZero(x, y, j, v) ==
    /\ RAdd(RMul(y[j], RSub(x[j + 1], x[j])),
            RMul(RSub(y[j + 1], y[j]), RSub(v, x[j]))) = Rat(0)
    /\ RLeq(x[j], v)
    /\ RLeq(v, x[j + 1])

\* v is the x of a sample of smallest absolute current
IsSmallestCurrent(x, y, v) ==
    \E i \in 1..Len(y) :
        /\ v = x[i]
        /\ \A k \in 1..Len(y) : RLeq(RAbs(y[i]), RAbs(y[k]))

\* v is w rounded to 4 decimal places
IsRounded4(v, w) ==
    /\ RMul(v, Rat(10000))[2] = 1
    /\ RLeq(RAbs(RSub(v, w)), <<1, 20000>>)

\* C14 as stated: the stopping potential is the interpolated zero of the
\* first adjacent pair whose currents change sign and lies between the
\* x-values of that pair; without a sign change it is the x of the sample
\* of smallest absolute current.
C14_Original ==
    IsViCall =>
        IF SignChanges(num.y) # {}
        THEN IsInterpolatedZero(num.x, num.y, FirstSignChange(num.y),
                                num.stopping_potential)
        ELSE IsSmallestCurrent(num.x, num.y, num.stopping_potential)

\* C14 amended: the zero crossing v_stop is the interpolated zero of the
\* first adjacent pair whose currents change sign and lies between the
\* x-values of that pair, or without a sign change the x of the sample of
\* smallest absolute current; the stopping potential is v_stop rounded to 4
\* decimal places.
C14_StoppingPotentialRounded ==
    IsViCall =>
        /\ IF SignChanges(num.y) # {}
           THEN IsInterpolatedZero(num.x, num.y, FirstSignChange(num.y), num.v_stop)
           ELSE IsSmallestCurrent(num.x, num.y, num.v_stop)
        /\ IsRounded4(num.stopping_potential, num.v_stop)

\* C14 witness: the currents change sign between the second and the third
\* sample and the zero is not a multiple of 1/10000
C14_Witness ==
    /\ IsViCall
    /\ num.x = <<Rat(0), Rat(1), Rat(2)>>
    /\ num.y = <<Rat(2), Rat(1), Rat(0 - 2)>>
    /\ num.v_stop = <<4, 3>>
    /\ num.stopping_potential = <<13333, 10000>>

IsNewtonCall == num.op = "fit_newtons_rings"

\* the sum over the rows of weight[i] * (t[i][2] - m * t[i][1] - c)
WeightedResiduals(t, m, c, weight) ==
    RSum([i \in 1..Len(t) |->
             RMul(weight[i], RSub(t[i][2], RAdd(RMul(m, t[i][1]), c)))])

\* C15: transformed_points has one entry per input row, in input order,
\* equal to [n_i, D_i^2], and the slope and the intercept returned are those
\* of the least-squares line of the transformed series: its residuals sum to
\* zero, plainly and weighted by n.
C15_NewtonsRingsFitsSquares ==
    (IsNewtonCall /\ num.result.exc = "none") =>
        LET t == num.result.transformed_points
            ones == [i \in 1..Len(t) |-> Rat(1)]
            ns == [i \in 1..Len(t) |-> t[i][1]]
        IN  /\ Len(t) = Len(num.points)
            /\ \A i \in 1..Len(t) :
                  /\ t[i][1] = num.points[i][1]
                  /\ t[i][2] = RMul(num.points[i][2], num.points[i][2])
            /\ WeightedResiduals(t, num.result.m, num.result.c, ones) = Rat(0)
            /\ WeightedResiduals(t, num.result.m, num.result.c, ns) = Rat(0)
            /\ num.result.slope_4Rlambda = num.result.m

\* C15 witness: diameters 1 and 2 at rings 2 and 1 (rows not in ring order)
C15_Witness ==
    /\ IsNewtonCall
    /\ num.points = << <<Rat(2), Rat(1)>>, <<Rat(1), Rat(2)>> >>
    /\ num.result.exc = "none"
    /\ num.result.m = Rat(0 - 3)
    /\ num.result.c = Rat(7)

-----------------------------------------------------------------------------
(* The breakpoint search of fit_cmc, lines 131-167, in exact arithmetic *)
(* (GridSpec)                                                           *)

\* the least number of points fit_cmc accepts (line 118)
MinCmcPoints == 5

\* the most evenly spaced candidates (line 148)
MaxLinspace == 50

GridMaxPoints == 6

Min(a, b) == IF a < b THEN a ELSE b

\* float("inf") as the score so far
Inf == <<1, 0>>

\* np.median of a sorted vector
Median(x) ==
    LET n == Len(x)
    IN  IF n % 2 = 1 THEN x[(n + 1) \div 2]
        ELSE RDiv(RAdd(x[n \div 2], x[n \div 2 + 1]), Rat(2))

\* np.linspace(start, stop, num), num >= 2
Linspace(start, stop, count) ==
    [i \in 1..count |->
        RAdd(start, RDiv(RMul(Rat(i - 1), RSub(stop, start)), Rat(count - 1)))]

\* the ascending sequence of the members of a set of numbers (np.unique)
RECURSIVE Ascending(_)
Ascending(S) ==
    IF S = {} THEN <<>>
    ELSE LET least == CHOOSE a \in S : \A b \in S : RLeq(a, b)
         IN  <<least>> \o Ascending(S \ {least})

\* mutant: the evenly spaced candidates run to the largest x
CandidatesToLast(x) ==
    LET n == Len(x)
        inner == {x[i] : i \in 3..(n - 2)}
        grid == Linspace(x[3], x[n], Min(MaxLinspace, n))
    IN  Ascending(inner \cup {grid[i] : i \in DOMAIN grid})

\* candidates, lines 145-150: x[2:-2] and the linspace from x[2] to x[-2]
Candidates(x) ==
    LET n == Len(x)
        inner == {x[i] : i \in 3..(n - 2)}
        grid == Linspace(x[3], x[n - 1], Min(MaxLinspace, n))
    IN  Ascending(inner \cup {grid[i] : i \in DOMAIN grid})

\* y[mask_right] with mask_right = x >= x0_cand, from index i on
RECURSIVE RightOf(_, _, _, _)
RightOf(x, y, x0_cand, i) ==
    IF i > Len(x) THEN <<>>
    ELSE IF RLeq(x0_cand, x[i]) THEN <<y[i]>> \o RightOf(x, y, x0_cand, i + 1)
    ELSE RightOf(x, y, x0_cand, i + 1)

\* mutant: a candidate that ties replaces the best so far
ImprovesOrTies(rss, best_rss) == best_rss = Inf \/ RLeq(rss, best_rss)

\* if rss < best_rss (line 165)
Improves(rss, best_rss) == best_rss = Inf \/ RLess(rss, best_rss)

\* the loop of lines 152-167 from candidate i on; best holds best_rss, best_x0
RECURSIVE SearchFrom(_, _, _, _, _)
SearchFrom(candidates, i, x, y, best) ==
    IF i > Len(candidates) THEN best
    ELSE LET y_right == RightOf(x, y, candidates[i], 1)
             plateau == RMean(y_right)
             rss == RSum([k \in DOMAIN y_right |-> RSquare(RSub(y_right[k], plateau))])
         IN  IF Len(y_right) < 2 THEN SearchFrom(candidates, i + 1, x, y, best)
             ELSE IF Improves(rss, best.best_rss)
             THEN SearchFrom(candidates, i + 1, x, y,
                             [best_rss |-> rss, best_x0 |-> candidates[i]])
             ELSE SearchFrom(candidates, i + 1, x, y, best)

\* lines 141-167: best_rss = inf, best_x0 = x0_guess = the median of x
BreakpointSearch(candidates, x, y) ==
    SearchFrom(candidates, 1, x, y, [best_rss |-> Inf, best_x0 |-> Median(x)])

\* sorted concentrations, of which a call takes the first n: evenly spaced,
\* and unevenly spaced with repeated values
GridXs == { <<0, 1, 2, 3, 4, 5, 6, 7>>, <<0, 1, 1, 3, 4, 4, 6, 7>> }

\* the surface tensions a cell can hold
Levels == {Rat(0), Rat(1), Rat(2), Rat(3)}

\* the search on the data fit_cmc has sorted by x (line 113)
CallBreakpointSearch ==
    /\ num = NoCall
    /\ \E n \in MinCmcPoints..GridMaxPoints : \E xs \in GridXs :
       \E x \in {[i \in 1..n |-> Rat(xs[i])]} :
       \E candidates \in {Candidates(x)} :
       \E y \in [1..n -> Levels] :
       \E best \in {BreakpointSearch(candidates, x, y)} :
          num' = [op |-> "breakpoint_search", x |-> x, y |-> y,
                  candidates |-> candidates,
                  best_x0 |-> best.best_x0, best_rss |-> best.best_rss]
    /\ UNCHANGED dvars

GridNext ==
    \/ CallBreakpointSearch
    \/ Return

GridSpec == Init /\ [][GridNext]_vars

IsSearch == num.op = "breakpoint_search"

\* the data points with x >= x0, and the sum of the squared deviations of
\* their y-values from their mean
RightSide(x0) == {i \in DOMAIN num.x : RLeq(x0, num.x[i])}

Score(x0) ==
    LET R == RightSide(x0)
        total == RSum([i \in DOMAIN num.y |-> IF i \in R THEN num.y[i] ELSE Rat(0)])
        mean == RDiv(total, Rat(Cardinality(R)))
    IN  RSum([i \in DOMAIN num.y |->
                 IF i \in R THEN RSquare(RSub(num.y[i], mean)) ELSE Rat(0)])

Eligible ==
    {num.candidates[i] : i \in {k \in DOMAIN num.candidates :
                                   Cardinality(RightSide(num.candidates[k])) >= 2}}

C17_CandidatesInInterior ==
    IsSearch =>
        LET n == Len(num.x)
        IN  /\ \A i \in DOMAIN num.candidates :
                  /\ RLeq(num.x[3], num.candidates[i])
                  /\ RLeq(num.candidates[i], num.x[n - 2])
            /\ Len(num.candidates) <= (n - 4) + MaxLinspace

\* y is strictly increasing or strictly decreasing up to index k and constant
\* from index k on
PlateauFrom(y, k) ==
    /\ \/ \A i \in 1..(k - 1) : RLess(y[i], y[i + 1])
       \/ \A i \in 1..(k - 1) : RLess(y[i + 1], y[i])
    /\ \A i \in k..Len(y) : y[i] = y[k]

\* the distance between neighbours of the evenly spaced candidates
GridStep ==
    RDiv(RSub(num.x[Len(num.x) - 1], num.x[3]), Rat(Min(MaxLinspace, Len(num.x)) - 1))

\* C18: on data strictly changing up to an interior index k and constant
\* from k on, the search returns a candidate within one grid step of x[k].
C18_PlateauFound ==
    IsSearch =>
        \A k \in 3..(Len(num.x) - 2) :
            PlateauFrom(num.y, k) =>
                RLeq(RAbs(RSub(num.best_x0, num.x[k])), GridStep)

-----------------------------------------------------------------------------
(* The refinement of fit_cmc, lines 172-229, on float64 parameters (CmcSpec). *)
(* curve_fit is outside the repository: it returns some parameter vector     *)
(* within the bounds it was given, or fails.  A value a + b * np.log(arg)    *)
(* is held as the record of a, b and arg.                                    *)

\* the literal 1e-15 of line 78
SmallestX0 == FDiv(FromInt(1), FMul(FromInt(10000000), FromInt(100000000)))

\* the literal 1e-12 of line 181, the lower bound of c
LowerC == FDiv(FromInt(1), FMul(FromInt(1000000), FromInt(1000000)))

\* a + b * np.log(arg)
LogTerm(a, b, arg) == [a |-> a, b |-> b, arg |-> arg]

\* max(x0, 1e-15)
FMax(a, b) == IF ELess(a, b) THEN b ELSE a

\* np.clip(x, 0, None)
ClipAtZero(x) == IF ELess(x, Zero) THEN Zero ELSE x

\* _szyszkowski_continuous(x, a, b, c, x0), lines 76-83, for one x
szyszkowski_continuous(x, a, b, c, x0) ==
    IF ELess(x, x0)
    THEN LogTerm(a, b, FAdd(FromInt(1), FMul(c, ClipAtZero(x))))
    ELSE LogTerm(a, b, FAdd(FromInt(1), FMul(c, FMax(x0, SmallestX0))))

\* the concentrations of a call, sorted: positive, negative, of both signs
CmcXs ==
    { <<1, 2, 3, 4, 5>>, <<0 - 5, 0 - 4, 0 - 3, 0 - 2, 0 - 1>>,
      <<0 - 2, 0 - 1, 1, 2, 3>> }

\* parameter vectors curve_fit may return for the data x under the bounds of
\* lines 180-183: a and b free, c >= 1e-12, x.min() <= x0 <= x.max()
SolverResults(x) ==
    [a : {FromInt(0), FromInt(3)},
     b : {FromInt(0 - 1), FromInt(0), FromInt(1)},
     c : {LowerC, FromInt(1)},
     x0 : {x[i] : i \in DOMAIN x}]

\* fit_cmc from line 174 on: curve_fit, then cmc_value and plateau (lines
\* 194-196) and y_pred (line 199)
CallFitCmcRefine ==
    /\ num = NoCall
    /\ \E xs \in CmcXs, solver \in CurveFitOutcomes :
       \E x \in {[i \in DOMAIN xs |-> FromInt(xs[i])]} :
          IF CmcAfterCurveFit(solver) # Returned
          THEN num' = [op |-> "fit_cmc (refinement)", x |-> x,
                       result |-> Raised(CmcNotConverged)]
          ELSE \E popt \in SolverResults(x) :
                  num' = [op |-> "fit_cmc (refinement)", x |-> x, popt |-> popt,
                          y_pred |-> [i \in DOMAIN x |->
                                         szyszkowski_continuous(x[i], popt.a, popt.b,
                                                                popt.c, popt.x0)],
                          result |-> [exc |-> "none",
                                      cmc_value |-> popt.x0,
                                      cmc_surface_tension |->
                                          LogTerm(popt.a, popt.b,
                                                  FAdd(FromInt(1), FMul(popt.c, popt.x0))),
                                      a |-> popt.a, b |-> popt.b, c |-> popt.c]]
    /\ UNCHANGED dvars

CmcNext ==
    \/ CallFitCmcRefine
    \/ Return

CmcSpec == Init /\ [][CmcNext]_vars

IsRefinement == num.op = "fit_cmc (refinement)"

\* v and w, both a + b * np.log(arg), are the same number: the logarithm is
\* a number for arg > 0 only, and differs for different arguments
SameNumber(v, w) ==
    /\ v.a = w.a
    /\ v.b = w.b
    /\ ELess(Zero, v.arg)
    /\ ELess(Zero, w.arg)
    /\ v.arg = w.arg \/ v.b = Zero

\* C19: whenever fit_cmc returns, cmc_value is the optimized x0 and lies in
\* [min(x), max(x)], c is at least 1e-12, and cmc_surface_tension is
\* a + b * ln(1 + c * cmc_value), the value the fitted model predicts for
\* every data point with x >= cmc_value.
C19_PlateauIsModelValue ==
    (IsRefinement /\ num.result.exc = "none") =>
        LET r == num.result
        IN  /\ r.cmc_value = num.popt.x0
            /\ ELeq(num.x[1], r.cmc_value)
            /\ ELeq(r.cmc_value, num.x[Len(num.x)])
            /\ ELeq(LowerC, r.c)
            /\ r.cmc_surface_tension =
                  LogTerm(r.a, r.b, FAdd(FromInt(1), FMul(r.c, r.cmc_value)))
            /\ \A i \in DOMAIN num.x :
                  ELeq(r.cmc_value, num.x[i]) =>
                      SameNumber(num.y_pred[i], r.cmc_surface_tension)

\* C29: every candidate of the grid search has at least 2 data points with
\* x >= candidate, so none is skipped, and the search ends with a breakpoint
\* that is one of the candidates and lies within [min(x), max(x)].
C29_NoCandidateSkipped ==
    IsSearch =>
        /\ \A i \in DOMAIN num.candidates :
              Cardinality(RightSide(num.candidates[i])) >= 2
        /\ \E i \in DOMAIN num.candidates : num.best_x0 = num.candidates[i]
        /\ RLeq(num.x[1], num.best_x0)
        /\ RLeq(num.best_x0, num.x[Len(num.x)])
        /\ num.best_rss # Inf

\* C29 witness: the largest candidate has exactly 2 points on its right, and
\* the breakpoint found is not the median the search started from
C29_Witness ==
    /\ IsSearch
    /\ Cardinality(RightSide(num.candidates[Len(num.candidates)])) = 2
    /\ num.best_x0 # Median(num.x)

-----------------------------------------------------------------------------
(* services/fitting.py: the estimators that transform their data and pass  *)
(* them to fit_straight_line, with the values they add to its result.      *)

\* abs(result["m"]) * e and its factors (lines 291-292): e = 1.602176634e-19
\* is kept as a symbol, and a product with it as the record of its factor.
\* e is positive, so two products are equal exactly when their factors are
TimesElementaryCharge(factor) == [factor |-> factor, times |-> "1.602176634e-19"]

\* fit_photoelectric_h(points), lines 285-304
fit_photoelectric_h(points) ==
    LET result == fit_straight_line(points)
        h_calc == TimesElementaryCharge(RAbs(result.m))
    IN  IF result.exc # "none" THEN result
        ELSE [exc |-> "none", m |-> result.m, c |-> result.c,
              r_squared |-> result.r_squared, h_calculated |-> h_calc,
              h_actual |-> "6.62607015e-34",
              work_function_over_e |-> RNeg(result.c)]

CallFitPhotoelectricH ==
    /\ num = NoCall
    /\ \E points \in LinePoints :
          num' = [op |-> "fit_photoelectric_h", points |-> points,
                  result |-> fit_photoelectric_h(points)]
    /\ UNCHANGED dvars

\* an amplitude of the damped oscillation: whether it is positive (phi > 0,
\* line 411) and, when it is, its logarithm (np.log, line 415).  The positive
\* amplitudes are the powers exp(k) of e, whose logarithm is k
Amplitude(k) == [positive |-> TRUE, ln |-> Rat(k)]
NotPositive == [positive |-> FALSE, ln |-> NaN]
Amplitudes == {NotPositive} \cup {Amplitude(k) : k \in 0..1}

\* pts (line 417): the rows <<t, ln(phi)>> of the mask phi > 0, from row j on
RECURSIVE LogRows(_, _, _)
LogRows(t, phi, j) ==
    IF j > Len(t) THEN <<>>
    ELSE (IF phi[j].positive THEN << <<t[j], phi[j].ln>> >> ELSE <<>>)
         \o LogRows(t, phi, j + 1)

\* the loop of fit_pohls_damped (lines 409-428) with its values, from series
\* i on: t is the sorted time column, amplitudes[i] the column of series i,
\* series_fits the dict built so far
RECURSIVE DampedFits(_, _, _, _, _)
DampedFits(i, t, amplitudes, labels, series_fits) ==
    IF i > Len(amplitudes) THEN [exc |-> "none", series_fits |-> series_fits]
    ELSE IF i > Len(labels) THEN Raised(LabelIndexError)
    ELSE LET pts == LogRows(t, amplitudes[i], 1)
             res == fit_straight_line(pts)
         IN  IF Len(pts) < 2
             THEN DampedFits(i + 1, t, amplitudes, labels, series_fits)
             ELSE IF res.exc # "none" THEN res
             ELSE DampedFits(i + 1, t, amplitudes, labels,
                      With(series_fits, labels[i],
                           [slope |-> res.m, intercept |-> res.c,
                            damping_constant |-> RNeg(res.m),
                            r_squared |-> res.r_squared]))

\* fit_pohls_damped, lines 393-440, with its values: columns is the number of
\* entries of the request's columns
fit_pohls_damped_series(t, amplitudes, columns) ==
    LET series_count == Len(amplitudes)
        series_labels == SeriesLabels(columns, series_count, "I_d = ")
        loop == DampedFits(1, t, amplitudes, series_labels, <<>>)
    IN  IF loop.exc # "none" THEN loop
        ELSE [exc |-> "none", series_fits |-> loop.series_fits,
              series_labels |-> series_labels, series_count |-> series_count]

CallFitPohlsDamped ==
    /\ num = NoCall
    /\ \E n \in 2..MaxPoints, series_count \in 1..(MaxWidth - 1), columns \in 0..MaxCols :
       \E t \in SortedX(n), amplitudes \in [1..series_count -> [1..n -> Amplitudes]] :
          num' = [op |-> "fit_pohls_damped", t |-> t, amplitudes |-> amplitudes,
                  columns |-> columns,
                  result |-> fit_pohls_damped_series(t, amplitudes, columns)]
    /\ UNCHANGED dvars

DerivedNext ==
    \/ CallFitPhotoelectricH
    \/ CallFitPohlsDamped
    \/ Return

DerivedSpec == Init /\ [][DerivedNext]_vars

IsPlanckCall == num.op = "fit_photoelectric_h"

\* C26: in the Planck's-constant mode h_calculated is the fitted slope times
\* e, with the sign of the slope, and work_function_over_e is minus the
\* fitted intercept.
C26_PlanckKeepsSlopeSign ==
    (IsPlanckCall /\ num.result.exc = "none") =>
        /\ num.result.m = fit_straight_line(num.points).m
        /\ num.result.h_calculated = TimesElementaryCharge(num.result.m)
        /\ RAdd(num.result.work_function_over_e,
                fit_straight_line(num.points).c) = Rat(0)

IsDampedCall == num.op = "fit_pohls_damped"

\* the series of the call that have fewer than 2 positive amplitudes
ShortSeries ==
    {i \in DOMAIN num.amplitudes :
        Cardinality({j \in DOMAIN num.t : num.amplitudes[i][j].positive}) < 2}

\* the labels of the call
DampedLabels == SeriesLabels(num.columns, Len(num.amplitudes), "I_d = ")

\* C27: in the damped-oscillation mode a series is fitted on its rows of
\* positive amplitude only (the residuals of the fitted line over these rows
\* sum to zero, plainly and weighted by the time), its damping_constant is
\* minus the slope of that line, a series with fewer than 2
\* positive amplitudes is left out without failing the request, and the keys
\* of series_fits are among series_labels.
C27_DampedSeriesFits ==
    IsDampedCall =>
        /\ ShortSeries # {} => num.result.exc \in {"none", DegenerateX.msg}
        /\ num.result.exc = "none" =>
              /\ DOMAIN num.result.series_fits
                    \subseteq {num.result.series_labels[k] :
                                  k \in DOMAIN num.result.series_labels}
              /\ \A i \in DOMAIN num.amplitudes :
                    IF i \in ShortSeries
                    THEN DampedLabels[i] \notin DOMAIN num.result.series_fits
                    ELSE LET fit == num.result.series_fits[DampedLabels[i]]
                             rows == [j \in DOMAIN num.t |->
                                         IF num.amplitudes[i][j].positive
                                         THEN <<num.t[j], num.amplitudes[i][j].ln>>
                                         ELSE <<num.t[j], Rat(0)>>]
                             mask == [j \in DOMAIN num.t |->
                                         IF num.amplitudes[i][j].positive
                                         THEN Rat(1) ELSE Rat(0)]
                             masked_t == [j \in DOMAIN num.t |->
                                             RMul(mask[j], num.t[j])]
                         IN  /\ WeightedResiduals(rows, fit.slope, fit.intercept, mask) = Rat(0)
                             /\ WeightedResiduals(rows, fit.slope, fit.intercept, masked_t) = Rat(0)
                             /\ RAdd(fit.damping_constant, fit.slope) = Rat(0)

-----------------------------------------------------------------------------
(* fit_waves_rope (services/fitting.py, lines 508-565) with its values,    *)
(* and the drawing of its groups (services/plotting.py, lines 341-366)     *)
(* (RopeSpec)                                                              *)

MaxRopeRows == 5

\* the group identifiers and the values of 1/nu of the rope rows
GroupIds == {Rat(g) : g \in 1..3}
RopeValues == {Rat(0), Rat(1)}

\* a row [group, 1/nu, lambda] of the rope table: the waves of group g travel
\* at phase velocity g, lambda = g * (1/nu)
RopeRows == {<<g, inv_nu, RMul(g, inv_nu)>> : g \in GroupIds, inv_nu \in RopeValues}

\* rope_points: 2 rows or more (routes/fit.py, line 127), in any order
RopePoints == UNION {[1..n -> RopeRows] : n \in 2..MaxRopeRows}

\* sorted(np.unique(arr[:, 0])) (lines 517, 523; plotting.py, lines 346-348)
SortedGroups(points) == Ascending({points[i][1] : i \in DOMAIN points})

\* the rows [inv_nu, lam] of the mask arr[:, 0] == g (lines 524-526), from
\* row i on
RECURSIVE GroupRows(_, _, _)
GroupRows(points, g, i) ==
    IF i > Len(points) THEN <<>>
    ELSE (IF points[i][1] = g THEN << <<points[i][2], points[i][3]>> >> ELSE <<>>)
         \o GroupRows(points, g, i + 1)

\* the loop of fit_waves_rope (lines 523-550) from group idx on, with the
\* dict series_fits and the list group_labels built so far
RECURSIVE RopeFits(_, _, _, _, _)
RopeFits(idx, groups, points, series_fits, group_labels) ==
    IF idx > Len(groups)
    THEN [exc |-> "none", series_fits |-> series_fits, group_labels |-> group_labels]
    ELSE LET transformed == GroupRows(points, groups[idx], 1)
             result == fit_straight_line(transformed)
             label == DefaultLabel("T", idx)
         IN  IF Len(transformed) < 2
             THEN RopeFits(idx + 1, groups, points, series_fits, group_labels)
             ELSE IF result.exc # "none" THEN result
             ELSE RopeFits(idx + 1, groups, points,
                      With(series_fits, label,
                           [slope |-> result.m, intercept |-> result.c,
                            phase_velocity |-> result.m,
                            r_squared |-> result.r_squared,
                            transformed_points |-> transformed]),
                      Append(group_labels, label))

\* fit_waves_rope(points), lines 508-565, with its values
fit_waves_rope_series(points) ==
    LET loop == RopeFits(1, SortedGroups(points), points, <<>>, <<>>)
    IN  IF loop.exc # "none" THEN loop
        ELSE IF DOMAIN loop.series_fits = {} THEN Raised(NoValidGroups)
        ELSE [exc |-> "none", series_fits |-> loop.series_fits,
              series_labels |-> loop.group_labels,
              series_count |-> Cardinality(DOMAIN loop.series_fits)]

\* plotting.py, line 353: the label of the group at position idx
PlotLabel(series_labels, idx) ==
    IF idx <= Len(series_labels) THEN series_labels[idx]
    ELSE DefaultLabel("T", idx)

\* generate_graph, mode "waves-rope" (plotting.py, lines 341-366): for each
\* group, in sorted order, the label of its data and the fit drawn over it
PlotRopeGroups(points, rope_fit) ==
    LET groups == SortedGroups(points)
    IN  [idx \in 1..Len(groups) |->
            LET label == PlotLabel(rope_fit.series_labels, idx)
            IN  [group |-> groups[idx], label |-> label,
                 line |-> IF label \in DOMAIN rope_fit.series_fits
                          THEN [drawn |-> TRUE, fit |-> rope_fit.series_fits[label]]
                          ELSE [drawn |-> FALSE]]]

\* rope_fit = fit_waves_rope(req.rope_points) (routes/fit.py, line 147)
CallFitWavesRope ==
    /\ num = NoCall
    /\ \E points \in RopePoints :
          num' = [op |-> "fit_waves_rope", points |-> points,
                  result |-> fit_waves_rope_series(points)]
    /\ UNCHANGED dvars

\* generate_graph(req.rope_points, rope_fit, "waves-rope", ...) (routes/fit.py,
\* line 157), reached when the estimator returned
CallGenerateGraphRope ==
    /\ num.op = "fit_waves_rope"
    /\ num.result.exc = "none"
    /\ num' = [op |-> "generate_graph", points |-> num.points,
               result |-> num.result,
               plotted |-> PlotRopeGroups(num.points, num.result)]
    /\ UNCHANGED dvars

RopeNext ==
    \/ CallFitWavesRope
    \/ CallGenerateGraphRope
    \/ Return

RopeSpec == Init /\ [][RopeNext]_vars

IsRopePlot == num.op = "generate_graph"

\* the positions, among the sorted groups, of the groups with 2 rows or more
FittedGroups ==
    {idx \in 1..Len(SortedGroups(num.points)) :
        Len(GroupRows(num.points, SortedGroups(num.points)[idx], 1)) >= 2}

\* C28: every rope group whose fit is stored in series_fits is drawn under
\* the label the estimator stored it under (T and its position among the
\* sorted groups), with its own fit, also when a group was skipped;
\* series_labels lists exactly the keys of series_fits and series_count is
\* their number.
C28_RopePlotFindsEveryFit ==
    IsRopePlot =>
        /\ \A idx \in FittedGroups :
              /\ DefaultLabel("T", idx) \in DOMAIN num.result.series_fits
              /\ num.plotted[idx].label = DefaultLabel("T", idx)
              /\ num.plotted[idx].line =
                    [drawn |-> TRUE,
                     fit |-> num.result.series_fits[DefaultLabel("T", idx)]]
        /\ {num.result.series_labels[k] : k \in DOMAIN num.result.series_labels}
              = DOMAIN num.result.series_fits
        /\ Len(num.result.series_labels) = Cardinality(DOMAIN num.result.series_fits)
        /\ num.result.series_count = Cardinality(DOMAIN num.result.series_fits)

-----------------------------------------------------------------------------
(* fit_photoelectric_vi (services/fitting.py, lines 247-282) on the rows   *)
(* as received, with the sort of line 253 (OrderSpec)                      *)

\* the rows [V_bias, I] of a request with one current series, in any order
ViRows == UNION {[1..n -> Coords \X Currents] : n \in 2..MaxPoints}

\* arr[arr[:, 0].argsort()] (line 253).  On an array of 16 entries or fewer
\* numpy's default sort is an insertion sort: rows of equal V_bias keep the
\* order they were received in.  sorted is sorted already; row goes behind
\* the rows whose V_bias is not larger, and behind them all when its V_bias
\* is nan
InsertByX(sorted, row) ==
    LET k == Cardinality({j \in DOMAIN sorted :
                             IsNaN(row[1]) \/ RLeq(sorted[j][1], row[1])})
    IN  SubSeq(sorted, 1, k) \o <<row>> \o SubSeq(sorted, k + 1, Len(sorted))

RECURSIVE ArgSortRows(_)
ArgSortRows(rows) ==
    IF rows = <<>> THEN <<>>
    ELSE InsertByX(ArgSortRows(SubSeq(rows, 1, Len(rows) - 1)), rows[Len(rows)])

\* fit_photoelectric_vi(points), lines 252-269, for a matrix of one series:
\* the entry of stopping_potentials
fit_photoelectric_vi(points) ==
    LET arr == ArgSortRows(points)
        x == [j \in DOMAIN arr |-> arr[j][1]]
        y == [j \in DOMAIN arr |-> arr[j][2]]
    IN  Round4(find_zero_crossing(x, y))

CallFitPhotoelectricViRows ==
    /\ num = NoCall
    /\ \E points \in ViRows :
          num' = [op |-> "fit_photoelectric_vi (rows)", points |-> points,
                  arr |-> ArgSortRows(points),
                  stopping_potential |-> fit_photoelectric_vi(points)]
    /\ UNCHANGED dvars

OrderNext ==
    \/ CallFitPhotoelectricViRows
    \/ Return

OrderSpec == Init /\ [][OrderNext]_vars

IsViRowsCall == num.op = "fit_photoelectric_vi (rows)"

\* the matrices whose rows are the rows of points in another order
RowPermutations(points) ==
    {[j \in DOMAIN points |-> points[p[j]]] :
        p \in {q \in [DOMAIN points -> DOMAIN points] :
                  \A a, b \in DOMAIN points : q[a] = q[b] => a = b}}

\* C30: the stopping potential of a photoelectric V-I request does not
\* depend on the order of its rows: every matrix with the same rows in
\* another order, repeated bias voltages included, gives the same value.
C30_RowOrderIrrelevant ==
    IsViRowsCall =>
        \A permuted \in RowPermutations(num.points) :
            fit_photoelectric_vi(permuted) = num.stopping_potential

-----------------------------------------------------------------------------
(* routes/fit.py: fit() on a request with its values (ValueSpec).  The     *)
(* handler is a record of its request and its locals; each block of fit()  *)
(* is an operator on that record.                                          *)

\* a cell of the points matrix after parsing: a float, nan included (the
\* field is list[list[float]], line 36)
Cells == {Rat(0 - 1), Rat(0), Rat(1), NaN}

\* the request bodies: a mode, 1 or 2 rows of 2 cells, columns absent or one
\* name per column
ValueRequests ==
    [mode : {"straight-line", "newtons-rings", "photoelectric-1-1"},
     points : UNION {[1..n -> [1..2 -> Cells]] : n \in 1..2},
     columns : {<<>>, <<"V", "I">>}]

NotCalled == [exc |-> "not called"]

\* FastAPI calls fit(req): received is the body as it arrived
Handler(r) ==
    [received |-> r, req |-> r, pc |-> "validate", arr |-> <<>>,
     fit_params |-> NotCalled, graphs |-> 0, response |-> NoResponse]

\* what the checks of lines 42-63 read of the request
ShapeOf(r) ==
    [mode |-> r.mode, points |-> [i \in DOMAIN r.points |-> Len(r.points[i])],
     columns |-> Len(r.columns)]

\* fit(), lines 42-63
Validated(h) ==
    LET failure == ValidateFit(ShapeOf(h.req))
    IN  IF failure.status # 0
        THEN [h EXCEPT !.pc = "failed", !.response = failure]
        ELSE [h EXCEPT !.pc = "fit"]

\* the array the estimator works on: np.array(points, dtype=float), sorted
\* by its first column in fit_photoelectric_vi (lines 15, 252-253, 364)
EstimatorArray(mode, points) ==
    IF mode = "photoelectric-1-1" THEN ArgSortRows(points) ELSE points

\* fit_photoelectric_vi on the sorted array of one series (lines 254-282)
PhotoelectricViResult(arr, columns) ==
    LET x == [j \in DOMAIN arr |-> arr[j][1]]
        y == [j \in DOMAIN arr |-> arr[j][2]]
        series_labels == IF Len(columns) > 1 THEN Tail(columns) ELSE <<"Series 1">>
    IN  [exc |-> "none",
         stopping_potentials |-> Round4(find_zero_crossing(x, y)),
         series_labels |-> series_labels, series_count |-> 1]

\* the branches of lines 65-88 for the modes of ValueRequests
ValueEstimator(mode, arr, columns) ==
    CASE mode = "straight-line" -> fit_straight_line(arr)
      [] mode = "newtons-rings" -> fit_newtons_rings(arr)
      [] mode = "photoelectric-1-1" -> PhotoelectricViResult(arr, columns)

\* mutant: the estimator sorts the list it was passed
CallerPointsSorted(points, arr) == arr

\* the list the caller passed, after the call: np.array(points, dtype=float)
\* is a new array and arr[arr[:, 0].argsort()] another (lines 15, 252-253;
\* plotting.py, lines 32-33), so the list is as it was
CallerPoints(points, arr) == points

\* fit(), lines 64-96, from the point where the estimator has bound its
\* array arr
FittedOn(h, arr) ==
    LET result == ValueEstimator(h.req.mode, arr, h.req.columns)
        after == [h EXCEPT !.arr = arr,
                           !.req.points = CallerPoints(h.req.points, arr)]
    IN  IF result.exc # "none"
        THEN [after EXCEPT !.pc = "failed",
                           !.response = Wrapped("Fitting error", [msg |-> result.exc])]
        ELSE [after EXCEPT !.pc = "plot", !.fit_params = result]

\* fit(), lines 64-96
Fitted(h) == FittedOn(h, EstimatorArray(h.req.mode, h.req.points))

\* fit(), lines 98-103: generate_graph returns an image or raises
Plotted(h, out) ==
    LET after == [h EXCEPT !.req.points =
                      CallerPoints(h.req.points, ArgSortRows(h.req.points))]
    IN  IF out = Returned
        THEN [after EXCEPT !.pc = "respond", !.graphs = 1]
        ELSE [after EXCEPT !.pc = "failed",
                           !.response = Wrapped("Graph generation error", out)]

\* fit(), lines 105-112
Responded(h) ==
    [h EXCEPT !.pc = "done",
              !.response = [status |-> 200, points |-> h.req.points,
                            columns |-> h.req.columns,
                            fitParams |-> h.fit_params]]

ReceiveValues ==
    /\ num = NoCall
    /\ \E r \in ValueRequests : num' = [op |-> "POST /fit", h |-> Handler(r)]
    /\ UNCHANGED dvars

ValidateValues ==
    /\ num.op = "POST /fit"
    /\ num.h.pc = "validate"
    /\ num' = [num EXCEPT !.h = Validated(num.h)]
    /\ UNCHANGED dvars

FitValues ==
    /\ num.op = "POST /fit"
    /\ num.h.pc = "fit"
    /\ num' = [num EXCEPT !.h = Fitted(num.h)]
    /\ UNCHANGED dvars

PlotValues ==
    /\ num.op = "POST /fit"
    /\ num.h.pc = "plot"
    /\ \E out \in PlotOutcomes : num' = [num EXCEPT !.h = Plotted(num.h, out)]
    /\ UNCHANGED dvars

RespondValues ==
    /\ num.op = "POST /fit"
    /\ num.h.pc = "respond"
    /\ num' = [num EXCEPT !.h = Responded(num.h)]
    /\ UNCHANGED dvars

\* the response is sent; the next request starts afresh
CloseValues ==
    /\ num.op = "POST /fit"
    /\ num.h.pc \in {"done", "failed"}
    /\ num' = NoCall
    /\ UNCHANGED dvars

ValueNext ==
    \/ ReceiveValues
    \/ ValidateValues
    \/ FitValues
    \/ PlotValues
    \/ RespondValues
    \/ CloseValues

ValueSpec == Init /\ [][ValueNext]_vars

IsValueRequest == num.op = "POST /fit"

HasNonFinite(points) ==
    \E i \in DOMAIN points : \E j \in DOMAIN points[i] : IsNaN(points[i][j])

\* C22: a request whose points matrix has a non-finite value is rejected as
\* a validation failure before any estimator is invoked: no estimator runs
\* on such a matrix and no FitResult is built from it.
C22_NonFiniteRejected ==
    (IsValueRequest /\ HasNonFinite(num.h.received.points)) =>
        /\ num.h.pc \in {"validate", "failed"}
        /\ num.h.arr = <<>>
        /\ num.h.fit_params = NotCalled
        /\ num.h.pc = "failed" => num.h.response.status = 400

\* C23: validation, fitting and plotting leave the request's points and
\* columns as they were received, whether the request succeeds or fails, and
\* a success response echoes the points and the columns received, same rows
\* in the same order, also when the estimator sorted its own array.
C23_RequestNotModified ==
    IsValueRequest =>
        /\ num.h.req = num.h.received
        /\ num.h.pc = "done" =>
              /\ num.h.response.status = 200
              /\ num.h.response.points = num.h.received.points
              /\ num.h.response.columns = num.h.received.columns

\* C23 witness: a success response to a request whose rows are not in the
\* order of their first column: the estimator worked on the sorted rows
C23_Witness ==
    /\ IsValueRequest
    /\ num.h.pc = "done"
    /\ num.h.received.mode = "photoelectric-1-1"
    /\ num.h.received.points = << <<Rat(1), Rat(0 - 1)>>, <<Rat(0), Rat(1)>> >>
    /\ num.h.arr = << <<Rat(0), Rat(1)>>, <<Rat(1), Rat(0 - 1)>> >>
    /\ num.h.response.points = num.h.received.points
    /\ num.h.response.fitParams.stopping_potentials = <<1, 2>>

-----------------------------------------------------------------------------
(* Two requests in flight at once (ConcSpec): each invocation of fit() is  *)
(* a handler of its own, and the two advance block by block in any order.  *)
(* The call of the estimator is taken in two steps, the binding of its     *)
(* array and the rest, so that the other handler can run in between.       *)

Invocations == 1..2

\* the request bodies of the two clients
ConcRequests ==
    [mode : {"straight-line", "photoelectric-1-1"},
     points : UNION {[1..n -> [1..2 -> {Rat(0), Rat(1)}]] : n \in 1..2},
     columns : {<<>>}]

IdleHandler == [pc |-> "idle"]

\* mutant: the estimators keep their array in one module-level variable
SharedFrame(k) == 1

\* the frame that holds the locals of the estimator called by invocation k:
\* arr, x, y, ... are local variables (lines 15-17, 252-254), and the modules
\* assign no global (routes/fit.py line 23, plotting.py lines 14-18 are
\* constants), so each call has a frame of its own
FrameOf(k) == k

ConcInit == [op |-> "concurrent", h |-> [k \in Invocations |-> IdleHandler],
             frames |-> [k \in Invocations |-> <<>>],
             overlapped |-> [k \in Invocations |-> FALSE]]

StartServing ==
    /\ num = NoCall
    /\ num' = ConcInit
    /\ UNCHANGED dvars

ReceiveConc(k) ==
    /\ num.op = "concurrent"
    /\ num.h[k].pc = "idle"
    /\ \E r \in ConcRequests :
          num' = [num EXCEPT !.h[k] = Handler(r), !.overlapped[k] = FALSE]
    /\ UNCHANGED dvars

ValidateConc(k) ==
    /\ num.op = "concurrent"
    /\ num.h[k].pc = "validate"
    /\ num' = [num EXCEPT !.h[k] = Validated(num.h[k])]
    /\ UNCHANGED dvars

\* the estimator is entered and binds arr (fitting.py lines 15, 252-253);
\* overlapped records that another invocation is inside an estimator
EnterEstimator(k) ==
    /\ num.op = "concurrent"
    /\ num.h[k].pc = "fit"
    /\ num' = [num EXCEPT
                  !.h[k].pc = "fitting",
                  !.frames[FrameOf(k)] =
                      EstimatorArray(num.h[k].req.mode, num.h[k].req.points),
                  !.overlapped[k] = \E j \in Invocations \ {k} :
                                        num.h[j].pc = "fitting"]
    /\ UNCHANGED dvars

\* the estimator computes on its array and returns or raises; its frame is
\* gone
LeaveEstimator(k) ==
    /\ num.op = "concurrent"
    /\ num.h[k].pc = "fitting"
    /\ num' = [num EXCEPT
                  !.h[k] = FittedOn(num.h[k], num.frames[FrameOf(k)]),
                  !.frames[FrameOf(k)] = <<>>]
    /\ UNCHANGED dvars

PlotConc(k) ==
    /\ num.op = "concurrent"
    /\ num.h[k].pc = "plot"
    /\ \E out \in PlotOutcomes : num' = [num EXCEPT !.h[k] = Plotted(num.h[k], out)]
    /\ UNCHANGED dvars

RespondConc(k) ==
    /\ num.op = "concurrent"
    /\ num.h[k].pc = "respond"
    /\ num' = [num EXCEPT !.h[k] = Responded(num.h[k])]
    /\ UNCHANGED dvars

CloseConc(k) ==
    /\ num.op = "concurrent"
    /\ num.h[k].pc \in {"done", "failed"}
    /\ num' = [num EXCEPT !.h[k] = IdleHandler]
    /\ UNCHANGED dvars

ConcNext ==
    \/ StartServing
    \/ \E k \in Invocations :
          \/ ReceiveConc(k)
          \/ ValidateConc(k)
          \/ EnterEstimator(k)
          \/ LeaveEstimator(k)
          \/ PlotConc(k)
          \/ RespondConc(k)
          \/ CloseConc(k)

ConcSpec == Init /\ [][ConcNext]_vars

IsServing == num.op = "concurrent"

\* the handler of request r run alone, up to the end of the fitting block
Alone(r) ==
    LET validated == Validated(Handler(r))
    IN  IF validated.pc = "failed" THEN validated ELSE Fitted(validated)

\* C21: whatever the interleaving of two concurrent fit requests, the
\* FitResult of each, or the failure of its fit, is the one the request gets
\* when it is run alone on the same input.
C21_ConcurrentRequestsIndependent ==
    IsServing =>
        \A k \in Invocations :
            num.h[k].pc \in {"plot", "respond", "done", "failed"} =>
                LET alone == Alone(num.h[k].received)
                IN  /\ num.h[k].fit_params = alone.fit_params
                    /\ alone.pc = "failed" =>
                          /\ num.h[k].pc = "failed"
                          /\ num.h[k].response = alone.response
                    /\ num.h[k].pc = "done" =>
                          num.h[k].response.fitParams = alone.fit_params

\* C21 witness: the two invocations were inside their estimators at the same
\* time, on different matrices, and the first has its result
C21_Witness ==
    /\ IsServing
    /\ num.h[1].pc = "done"
    /\ num.h[2].pc = "fitting"
    /\ num.overlapped[2] \/ num.overlapped[1]
    /\ num.h[1].received.points = << <<Rat(0), Rat(0)>>, <<Rat(1), Rat(1)>> >>
    /\ num.h[2].received.points = << <<Rat(1), Rat(0)>>, <<Rat(0), Rat(1)>> >>
    /\ num.h[1].received.mode = "straight-line"
    /\ num.h[1].response.fitParams.m = Rat(1)

-----------------------------------------------------------------------------
(* fit_cmc_2, the multi-start gradient-descent driver (MultiStartSpec).    *)
(* test_cmc_methods.py imports and calls it (lines 13, 77), but            *)
(* services/fitting.py does not define it: the driver is modelled from     *)
(* section 4.4 of the specification.  The optimizer is deterministic, so   *)
(* the run from a start is a function of the data and the start; the data  *)
(* are held by the costs they give the runs.                               *)

\* the seed of the perturbations ("a deterministic random seed")
RandomSeed == 42

\* the seeds a generator seeded from the clock or the system could get
Entropy == {7, RandomSeed}

\* the generator of the perturbations: a linear congruential sequence, and
\* the factor (one of 4 within +-50%) drawn from a state of it
NextRandom(state) == (5 * state + 3) % 16
FactorOf(state) == state \div 4

\* mutant: the generator is seeded from the entropy of the process
SeedFromEntropy(entropy) == entropy

\* the generator is seeded with the fixed seed
SeedOf(entropy) == RandomSeed

RECURSIVE RandomStates(_, _)
RandomStates(state, count) ==
    IF count = 0 THEN <<>>
    ELSE <<NextRandom(state)>> \o RandomStates(NextRandom(state), count - 1)

\* the starting points: the heuristic seed, 3 seeds sweeping x0 over the
\* fractions 0.3, 0.5, 0.7 of the data range, 3 seeds scaling c by 0.1, 1,
\* 10, and 4 random perturbations of the heuristic seed
StartingPoints(entropy) ==
    LET draws == RandomStates(SeedOf(entropy) % 16, 4)
    IN  << [kind |-> "heuristic", at |-> 0] >>
        \o [k \in 1..3 |-> [kind |-> "x0 sweep", at |-> 2 * k + 1]]
        \o [k \in 1..3 |-> [kind |-> "c scale", at |-> k - 2]]
        \o [k \in 1..4 |-> [kind |-> "perturbed", at |-> FactorOf(draws[k])]]

\* the data of a call, as the cost the optimizer ends with from each kind of
\* start (from a perturbed start, by its factor)
Costs == {1, 2}
CostSurfaces ==
    [heuristic : Costs, sweep : Costs, scale : Costs, perturbed : [0..3 -> Costs]]

\* one run of the optimizer: the cost it ends with and the breakpoint it
\* ends at, which is its own for every start
Optimize(surface, start) ==
    [cost |-> CASE start.kind = "heuristic" -> surface.heuristic
                [] start.kind = "x0 sweep" -> surface.sweep
                [] start.kind = "c scale" -> surface.scale
                [] start.kind = "perturbed" -> surface.perturbed[start.at],
     cmc_value |-> start]

NotRun == [cost |-> 0]
NoBest == [index |-> 0, cost |-> 0]

\* mutant: a run replaces the best so far only when its cost is lower
ReplacesOnLowerCost(index, cost, best) ==
    best = NoBest \/ cost < best.cost

\* "lowest-cost wins; first-found wins ties": the run replaces the best so
\* far when its cost is lower, or equal and its start comes before
Replaces(index, cost, best) ==
    \/ best = NoBest
    \/ cost < best.cost
    \/ cost = best.cost /\ index < best.index

CallFitCmc2 ==
    /\ num = NoCall
    /\ \E surface \in CostSurfaces, entropy \in Entropy :
          num' = [op |-> "fit_cmc_2", surface |-> surface, entropy |-> entropy,
                  starts |-> StartingPoints(entropy),
                  runs |-> [k \in 1..11 |-> NotRun],
                  best |-> NoBest, out_of_order |-> FALSE,
                  result |-> [exc |-> "not returned"]]
    /\ UNCHANGED dvars

\* the run from start k ends, in any order (sequentially in the reference
\* design), and the best so far is updated
RunEnds(k) ==
    /\ num.op = "fit_cmc_2"
    /\ num.runs[k] = NotRun
    /\ LET run == Optimize(num.surface, num.starts[k])
       IN  num' = [num EXCEPT
                      !.runs[k] = run,
                      !.best = IF Replaces(k, run.cost, num.best)
                               THEN [index |-> k, cost |-> run.cost]
                               ELSE num.best,
                      !.out_of_order =
                          num.out_of_order
                          \/ \E j \in 1..(k - 1) : num.runs[j] = NotRun]
    /\ UNCHANGED dvars

\* all runs have ended: the result is that of the best run
ReturnBest ==
    /\ num.op = "fit_cmc_2"
    /\ num.result.exc = "not returned"
    /\ \A k \in DOMAIN num.runs : num.runs[k] # NotRun
    /\ num' = [num EXCEPT
                  !.result = [exc |-> "none",
                              cmc_value |-> num.runs[num.best.index].cmc_value,
                              cost |-> num.best.cost,
                              method |-> "gradient descent"]]
    /\ UNCHANGED dvars

MultiStartNext ==
    \/ CallFitCmc2
    \/ \E k \in 1..11 : RunEnds(k)
    \/ ReturnBest
    \/ Return

MultiStartSpec == Init /\ [][MultiStartNext]_vars

IsMultiStart == num.op = "fit_cmc_2"

HasReturned == IsMultiStart /\ num.result.exc = "none"

\* the starts of a call whose generator has the fixed seed, and the first of
\* them, in start order, whose run has the lowest cost on the given data
SeededStarts == StartingPoints(RandomSeed)

FirstLowest(surface, starts) ==
    CHOOSE k \in DOMAIN starts :
        /\ \A j \in DOMAIN starts :
              Optimize(surface, starts[k]).cost <= Optimize(surface, starts[j]).cost
        /\ \A j \in 1..(k - 1) :
              Optimize(surface, starts[k]).cost < Optimize(surface, starts[j]).cost

\* C24: two calls of the multi-start driver on identical input return the
\* same cmc_value: the value returned is a function of the data alone,
\* whatever the entropy of the process and the order the runs end in.
C24_SameInputSameCmc ==
    HasReturned =>
        num.result.cmc_value =
            SeededStarts[FirstLowest(num.surface, SeededStarts)]

\* C24 witness: a call in a process of other entropy than the seed returns
\* the breakpoint of a perturbed start
C24_Witness ==
    /\ HasReturned
    /\ num.entropy # RandomSeed
    /\ num.result.cmc_value.kind = "perturbed"

\* C25: the driver returns only when the optimizer has run from every
\* starting point, and returns the result of the run of lowest cost, the
\* first in start order among the runs of equal lowest cost, whatever order
\* the runs ended in.
C25_LowestCostFirstFoundWins ==
    HasReturned =>
        /\ \A k \in DOMAIN num.runs :
              /\ num.runs[k] = Optimize(num.surface, num.starts[k])
              /\ num.result.cost <= num.runs[k].cost
        /\ num.result.cost = num.runs[num.best.index].cost
        /\ num.result.cmc_value = num.runs[num.best.index].cmc_value
        /\ \A k \in 1..(num.best.index - 1) : num.runs[k].cost > num.result.cost

\* C25 witness: the runs did not end in start order, several have the lowest
\* cost, and the result is that of the run from the first of them
C25_Witness ==
    /\ HasReturned
    /\ num.out_of_order
    /\ num.best.index = 2
    /\ Cardinality({k \in DOMAIN num.runs : num.runs[k].cost = num.result.cost}) >= 2

=============================================================================
